---- MODULE Spec2Model ----
(***************************************************************************)
(* A model of collection.Collection[K, V] (src/collection/collection.go    *)
(* and src/collection/collection_mappers.go): a map guarded by a           *)
(* sync.RWMutex, called by several goroutines.  Every goroutine has a call *)
(* stack of frames, one per method it is inside; a frame's pc is the place *)
(* in the method's body.  Callbacks (Ensure's generator, the function      *)
(* given to a traversal) run on the calling goroutine and may call the     *)
(* container again, which pushes a frame.                                  *)
(***************************************************************************)
EXTENDS Integers, Sequences, FiniteSets, TLC

VARIABLES
    items,      \* items[c][k]: the value container c maps k to, or Absent
    mu,         \* mu[c]: the state of container c's sync.RWMutex
    stack,      \* stack[t]: the frames of the started goroutine t is inside
    started,    \* started[t]: goroutine t has made its call
    ret,        \* ret[t]: <<method, value>> returned by t's top-level call
    gencount,   \* gencount[t]: how often the generator of t's top-level Ensure ran
    genval,     \* genval[t]: what the generator of t's top-level Ensure returned
    first,      \* first[t]: the frame of the top-level call t started last
    lastw       \* lastw[c]: the call that took c's exclusive lock last

vars == <<items, mu, stack, started, ret, gencount, genval, first, lastw>>

(***************************************************************************)
(* Bounds of the model.                                                    *)
(***************************************************************************)
NKeys == 2
NVals == 2
NThreads == 2
NGenThreads == 1
NLockThreads == 2
NTravThreads == 2
NBinThreads == 2
NSetThreads == 2
MaxNested == 1
NGrowThreads == 3
NQueryThreads == 1
NTapThreads == 2
NPosThreads == 1
MaxAmount == 3
NIndexThreads == 1
NRandomThreads == 1
MaxConcat == 2
MaxEntries == 3
IntBits == 4
MaxDepth == 4

\* The containers: A and B exist from the start, N is the one New() makes
\* for a method that returns a new container.
Cols == {"A", "B", "N"}
NoCol == "none"
Keys == 1..NKeys
Vals == 1..NVals
Absent == 0
\* Goroutines; each specification starts the first few of them.
Threads == 1..(NBinThreads + NSetThreads)
NoThread == 0

Maps == [Keys -> Vals \cup {Absent}]
EmptyMap == [k \in Keys |-> Absent]
KeysOf(its) == {k \in Keys : its[k] # Absent}
SizeOf(its) == Cardinality(KeysOf(its))

RECURSIVE Orders(_)
\* The sequences `for k := range` may produce over a map whose keys are S.
Orders(S) ==
    IF S = {} THEN {<<>>}
    ELSE UNION {{<<k>> \o o : o \in Orders(S \ {k})} : k \in S}

KeysUnlockedAny(its) == UNION {[1..n -> Keys] : n \in 0..NKeys}
KeysUnlocked(its) == Orders(KeysOf(its))

(***************************************************************************)
(* sync.RWMutex, as the Go documentation and runtime define it.  readers[t]*)
(* counts the shared holds of goroutine t.  A writer first takes the       *)
(* writer slot (announcing itself) and then waits until the readers that   *)
(* hold the lock have left; while the slot is taken every RLock, also one  *)
(* by a goroutine that already holds the lock shared, parks in rwait until *)
(* that writer unlocks.                                                    *)
(***************************************************************************)
FreeMutex ==
    [readers |-> [t \in Threads |-> 0], rwait |-> {}, writer |-> NoThread,
     wactive |-> FALSE]

NoReaders(m) == \A u \in Threads : m.readers[u] = 0

RLock(m, t) ==
    IF m.writer = NoThread
    THEN [m EXCEPT !.readers[t] = @ + 1]
    ELSE [m EXCEPT !.rwait = @ \cup {t}]

RUnlock(m, t) ==
    LET n == [m EXCEPT !.readers[t] = @ - 1]
    IN  IF n.writer # NoThread /\ ~n.wactive /\ NoReaders(n)
        THEN [n EXCEPT !.wactive = TRUE]
        ELSE n

CanLock(m) == m.writer = NoThread

Lock(m, t) ==
    [m EXCEPT !.writer = t, !.wactive = NoReaders(m)]

Unlock(m, t) ==
    [m EXCEPT !.writer = NoThread,
              !.wactive = FALSE,
              !.readers = [u \in Threads |->
                              IF u \in m.rwait THEN @[u] + 1 ELSE @[u]],
              !.rwait = {}]

\* Goroutine t is parked inside an RLock or a Lock of some container.
Blocked(t) ==
    \E c \in Cols :
        \/ t \in mu[c].rwait
        \/ mu[c].writer = t /\ ~mu[c].wactive

HoldsNoLock(t) ==
    \A c \in Cols :
        mu[c].readers[t] = 0 /\ t \notin mu[c].rwait /\ mu[c].writer # t

(***************************************************************************)
(* Frames and the call stack.                                              *)
(***************************************************************************)
\* The methods that begin with c.mu.Lock(); every other method but Tap
\* begins with c.mu.RLock().  A frame's pc is "lock" (resp. "rlock") when
\* the call of Lock (resp. RLock) is the next thing the method does; Tap
\* takes no lock and begins with the call of its function (pc "incb").
LockFirst == {"Set", "Delete", "Clear", "Reverse", "Sort", "Sweep"}

Frame(op, c, o, k, v) ==
    [op |-> op,
     pc |-> IF op \in LockFirst THEN "lock"
            ELSE IF op = "Tap" THEN "incb" ELSE "rlock",
     c |-> c, o |-> o, k |-> k, v |-> v,
     rem |-> {}, n |-> 0, cnt |-> 0, res |-> EmptyMap, seen |-> EmptyMap,
     args |-> <<>>, d |-> NoCol, leaf |-> FALSE]

\* The call f whose New() returns container d.
Making(f, d) == [f EXCEPT !.d = d]

\* The maps after the method has filled the container d that New() gave it
\* with m and returned it (d is NoCol when the model does not follow the
\* new container).
NewWithInput(d, m) == [items EXCEPT !["A"] = m]
NewWith(d, m) == IF d = NoCol THEN items ELSE [items EXCEPT ![d] = m]

\* A call made by a callback; the callbacks it is given call nothing.
Leaf(f) == [f EXCEPT !.leaf = TRUE]

NoFrame == Frame("none", "A", "A", 1, Absent)

\* What lastw records of the call f of goroutine t.
Writer(t, f) == [t |-> t, op |-> f.op, k |-> f.k, v |-> f.v]
NoWriter == [t |-> NoThread, op |-> "none", k |-> 1, v |-> Absent]
NoRet == <<"none", 0>>

Depth(t) == Len(stack[t])
Top(t) == stack[t][Len(stack[t])]
Running(t, op, pc) ==
    /\ Depth(t) > 0
    /\ Top(t).op = op
    /\ Top(t).pc = pc
    /\ ~Blocked(t)

Goto(t, f) == stack' = [stack EXCEPT ![t] = [@ EXCEPT ![Len(@)] = f]]
\* A call returns r: to the goroutine's own code when it is the top-level
\* call (recorded in ret), to the callback that made it otherwise.
Return(t, r) ==
    /\ stack' = [stack EXCEPT ![t] = SubSeq(@, 1, Len(@) - 1)]
    /\ ret' = IF Depth(t) = 1 THEN [ret EXCEPT ![t] = r] ELSE ret

Idle(t) == Depth(t) = 0

\* Goroutine t is inside a call and cannot go on by itself: it is parked in
\* RLock or Lock, or it is about to call Lock while another goroutine has
\* the writer slot.
Waiting(t) ==
    /\ Depth(t) > 0
    /\ \/ Blocked(t)
       \/ Top(t).pc = "lock" /\ ~CanLock(mu[Top(t).c])

\* Some goroutine is inside a call and every goroutine inside a call waits
\* for a lock: the locks they wait for are held by goroutines that wait
\* too, so none of them ever returns.
Deadlock ==
    /\ \E t \in Threads : ~Idle(t)
    /\ \A t \in Threads : ~Idle(t) => Waiting(t)

\* Goroutine t is started and makes its call (go func() { c.Op(...) }()).
Call(t, f) ==
    /\ ~started[t]
    /\ stack' = [stack EXCEPT ![t] = <<f>>]
    /\ started' = [started EXCEPT ![t] = TRUE]
    /\ first' = [first EXCEPT ![t] = f]
    /\ UNCHANGED <<items, mu, ret, gencount, genval, lastw>>

\* A callback running on t (Ensure's generator, a traversal's function)
\* started a method of the container.
InCallback(t) ==
    /\ Depth(t) > 0
    /\ Top(t).pc \in {"ingen", "incb"}
    /\ ~Blocked(t)

Nested(t, f) ==
    /\ InCallback(t)
    /\ ~Top(t).leaf
    /\ Top(t).n < MaxNested
    /\ stack' = [stack EXCEPT ![t] =
                    Append([@ EXCEPT ![Len(@)].n = @ + 1], f)]
    /\ UNCHANGED <<items, mu, started, ret, gencount, genval, first, lastw>>

(***************************************************************************)
(* Set, Delete, Clear: Lock, change the map, Unlock.                       *)
(***************************************************************************)
SetStoreIfAbsent(its, k, v) ==
    IF its[k] # Absent THEN its ELSE [its EXCEPT ![k] = v]
SetStoreKeep(its, k, v) == its
SetStoreAlone(its, k, v) == [j \in Keys |-> IF j = k THEN v ELSE Absent]
SetStore(its, k, v) == [its EXCEPT ![k] = v]

\* Set's c.mu.Lock().
SetAcquireShared(m, t) == RLock(m, t)
SetAcquire(m, t) == Lock(m, t)
DeleteStoreAll(its, k) == EmptyMap
DeleteStore(its, k) == [its EXCEPT ![k] = Absent]

SetLock(t) ==
    /\ Running(t, "Set", "lock")
    /\ CanLock(mu[Top(t).c])
    /\ mu' = [mu EXCEPT ![Top(t).c] = SetAcquire(@, t)]
    /\ lastw' = [lastw EXCEPT ![Top(t).c] = Writer(t, Top(t))]
    /\ Goto(t, [Top(t) EXCEPT !.pc = "body"])
    /\ UNCHANGED <<items, started, ret, gencount, genval, first>>

SetBody(t) ==
    /\ Running(t, "Set", "body")
    /\ items' = [items EXCEPT ![Top(t).c] = SetStore(@, Top(t).k, Top(t).v)]
    /\ mu' = [mu EXCEPT ![Top(t).c] = Unlock(@, t)]
    /\ Return(t, <<"Set", Top(t).c>>)
    /\ UNCHANGED <<started, gencount, genval, first, lastw>>

DeleteLock(t) ==
    /\ Running(t, "Delete", "lock")
    /\ CanLock(mu[Top(t).c])
    /\ mu' = [mu EXCEPT ![Top(t).c] = Lock(@, t)]
    /\ lastw' = [lastw EXCEPT ![Top(t).c] = Writer(t, Top(t))]
    /\ Goto(t, [Top(t) EXCEPT !.pc = "body"])
    /\ UNCHANGED <<items, started, ret, gencount, genval, first>>

DeleteBody(t) ==
    /\ Running(t, "Delete", "body")
    /\ items' = [items EXCEPT ![Top(t).c] = DeleteStore(@, Top(t).k)]
    /\ mu' = [mu EXCEPT ![Top(t).c] = Unlock(@, t)]
    /\ Return(t, <<"Delete", items[Top(t).c][Top(t).k] # Absent>>)
    /\ UNCHANGED <<started, gencount, genval, first, lastw>>

(***************************************************************************)
(* Get, Has, Size: RLock, read, RUnlock.                                   *)
(***************************************************************************)
ReadOps == {"Get", "Has", "Size"}

ReadResult(op, its, k) ==
    CASE op = "Get" -> <<"Get", <<its[k], its[k] # Absent>>>>
      [] op = "Has" -> <<"Has", its[k] # Absent>>
      [] op = "Size" -> <<"Size", SizeOf(its)>>

ReadRLock(t) ==
    /\ Depth(t) > 0
    /\ Top(t).op \in ReadOps
    /\ Top(t).pc = "rlock"
    /\ ~Blocked(t)
    /\ mu' = [mu EXCEPT ![Top(t).c] = RLock(@, t)]
    /\ Goto(t, [Top(t) EXCEPT !.pc = "body"])
    /\ UNCHANGED <<items, started, ret, gencount, genval, first, lastw>>

ReadBody(t) ==
    /\ Depth(t) > 0
    /\ Top(t).op \in ReadOps
    /\ Top(t).pc = "body"
    /\ ~Blocked(t)
    /\ mu' = [mu EXCEPT ![Top(t).c] = RUnlock(@, t)]
    /\ Return(t, ReadResult(Top(t).op, items[Top(t).c], Top(t).k))
    /\ UNCHANGED <<items, started, gencount, genval, first, lastw>>

(***************************************************************************)
(* Clear, Reverse, Sort: Lock, replace the map, Unlock.  Reverse and Sort  *)
(* take the keys in the order the map yields them, reverse resp. sort that *)
(* slice, and copy the entries key by key, in the slice's order, into a    *)
(* fresh Go map, which becomes c.items.  A Go map keeps no order: the new  *)
(* map is a mapping like the old one.  A Sort frame's v is its comparator. *)
(***************************************************************************)
RebuildOps == {"Clear", "Reverse", "Sort"}

\* The comparators of the tests: by key, and by value.
ByKey == 0
ByValue == 1

ThreeWay(a, b) == IF a < b THEN -1 ELSE IF a > b THEN 1 ELSE 0

\* compare(firstValue, secondValue, firstKey, secondKey)
Compare(cmp, v1, v2, k1, k2) ==
    IF cmp = ByValue THEN ThreeWay(v1, v2) ELSE ThreeWay(k1, k2)

\* The less function Sort gives sort.SliceStable.
Less(cmp, its, k1, k2) == Compare(cmp, its[k1], its[k2], k1, k2) < 0

\* The swaps of Reverse's loop.
Reversed(keys) == [i \in 1..Len(keys) |-> keys[Len(keys) + 1 - i]]

\* x put into the sorted slice s behind every element that is not above it.
InsertKey(s, x, cmp, its) ==
    LET p == Cardinality({i \in 1..Len(s) : ~Less(cmp, its, x, s[i])})
    IN  SubSeq(s, 1, p) \o <<x>> \o SubSeq(s, p + 1, Len(s))

RECURSIVE SortPrefix(_, _, _, _)
\* The first n keys, stably sorted.
SortPrefix(keys, n, cmp, its) ==
    IF n = 0 THEN <<>>
    ELSE InsertKey(SortPrefix(keys, n - 1, cmp, its), keys[n], cmp, its)

\* sort.SliceStable(keys, less): entries that compare equal keep the order
\* they have in keys.
SliceStable(keys, cmp, its) == SortPrefix(keys, Len(keys), cmp, its)

\* `for _, k := range keys { newItems[k] = c.items[k] }`
FromKeysButLast(keys, its) ==
    [k \in Keys |-> IF \E i \in 1..(Len(keys) - 1) : keys[i] = k THEN its[k]
                    ELSE Absent]
FromKeys(keys, its) ==
    [k \in Keys |-> IF \E i \in 1..Len(keys) : keys[i] = k THEN its[k]
                    ELSE Absent]

\* The map the method installs, keys being what keysUnlocked() gave it.
Rebuild(op, its, keys, cmp) ==
    CASE op = "Clear" -> EmptyMap
      [] op = "Reverse" -> FromKeys(Reversed(keys), its)
      [] op = "Sort" -> FromKeys(SliceStable(keys, cmp, its), its)

RebuildLock(t) ==
    /\ Depth(t) > 0
    /\ Top(t).op \in RebuildOps
    /\ Top(t).pc = "lock"
    /\ ~Blocked(t)
    /\ CanLock(mu[Top(t).c])
    /\ mu' = [mu EXCEPT ![Top(t).c] = Lock(@, t)]
    /\ lastw' = [lastw EXCEPT ![Top(t).c] = Writer(t, Top(t))]
    /\ Goto(t, [Top(t) EXCEPT !.pc = "body"])
    /\ UNCHANGED <<items, started, ret, gencount, genval, first>>

RebuildBody(t) ==
    /\ Depth(t) > 0
    /\ Top(t).op \in RebuildOps
    /\ Top(t).pc = "body"
    /\ ~Blocked(t)
    /\ \E keys \in KeysUnlocked(items[Top(t).c]) :
          items' = [items EXCEPT ![Top(t).c] =
                       Rebuild(Top(t).op, @, keys, Top(t).v)]
    /\ mu' = [mu EXCEPT ![Top(t).c] = Unlock(@, t)]
    /\ Return(t, <<Top(t).op, Top(t).c>>)
    /\ UNCHANGED <<started, gencount, genval, first, lastw>>

(***************************************************************************)
(* Traversals: RLock, then `for k, v := range c.items { fn(v, k, c) }`,    *)
(* RUnlock on return.  rem is the set of keys the range loop has not       *)
(* produced yet (a Go map is ranged over in any order); fn runs at pc      *)
(* "incb" and may call the container; the value it returns is an input.    *)
(* cnt counts the calls of fn, seen holds the entries fn was called with.  *)
(***************************************************************************)
TravOps == {"Each", "Some", "Every", "Find", "Filter"}

\* Partition runs the same loop and fills two containers, pass and fail
\* (res is the pair of them).
RangeOps == TravOps \cup {"Partition"}

\* The loop stops at the first entry for which fn returned b.
TravStopsAlways(op, b) == TRUE
TravStops(op, b) ==
    \/ op \in {"Some", "Find"} /\ b
    \/ op = "Every" /\ ~b

\* What the traversal returns when it stopped at key k (stopped), or when
\* the loop ran to its end; res is what Filter has collected.
TravResult(op, c, its, k, stopped, res) ==
    CASE op = "Each" -> <<"Each", c>>
      [] op = "Some" -> <<"Some", stopped>>
      [] op = "Every" -> <<"Every", ~stopped>>
      [] op = "Find" -> <<"Find", IF stopped THEN <<its[k], TRUE>>
                                   ELSE <<Absent, FALSE>>>>
      [] op = "Filter" -> <<"Filter", res>>
      [] op = "Partition" -> <<"Partition", res[1], res[2]>>

TravCollectAll(op, res, its, k, b) ==
    CASE op = "Filter" -> [res EXCEPT ![k] = its[k]]
      [] op = "Partition" -> <<[res[1] EXCEPT ![k] = its[k]], res[2]>>
      [] OTHER -> res
TravCollect(op, res, its, k, b) ==
    CASE op = "Filter" /\ b -> [res EXCEPT ![k] = its[k]]
      [] op = "Partition" /\ b -> <<[res[1] EXCEPT ![k] = its[k]], res[2]>>
      [] op = "Partition" /\ ~b -> <<res[1], [res[2] EXCEPT ![k] = its[k]]>>
      [] OTHER -> res

TravRLock(t) ==
    /\ Depth(t) > 0
    /\ Top(t).op \in RangeOps
    /\ Top(t).pc = "rlock"
    /\ ~Blocked(t)
    /\ mu' = [mu EXCEPT ![Top(t).c] = RLock(@, t)]
    /\ Goto(t, [Top(t) EXCEPT !.pc = "range"])
    /\ UNCHANGED <<items, started, ret, gencount, genval, first, lastw>>

\* The range loop starts: it will produce the keys the map holds now.
TravRange(t) ==
    /\ Depth(t) > 0
    /\ Top(t).op \in RangeOps
    /\ Top(t).pc = "range"
    /\ ~Blocked(t)
    /\ Goto(t, [Top(t) EXCEPT
                   !.pc = "iter", !.rem = KeysOf(items[Top(t).c]),
                   !.res = IF Top(t).op = "Partition"
                           THEN <<EmptyMap, EmptyMap>> ELSE @])
    /\ UNCHANGED <<items, mu, started, ret, gencount, genval, first, lastw>>

\* The loop produces the next entry and calls fn on it, or ends.
TravIter(t) ==
    /\ Depth(t) > 0
    /\ Top(t).op \in RangeOps
    /\ Top(t).pc = "iter"
    /\ ~Blocked(t)
    /\ IF Top(t).rem = {}
       THEN /\ mu' = [mu EXCEPT ![Top(t).c] = RUnlock(@, t)]
            /\ items' = IF Top(t).op = "Filter"
                        THEN NewWith(Top(t).d, Top(t).res)
                        ELSE items
            /\ Return(t, TravResult(Top(t).op, Top(t).c, items[Top(t).c],
                                    Top(t).k, FALSE, Top(t).res))
       ELSE /\ \E k \in Top(t).rem :
                 Goto(t, [Top(t) EXCEPT
                            !.pc = "incb", !.k = k, !.rem = @ \ {k}, !.n = 0,
                            !.cnt = @ + 1,
                            !.seen = [@ EXCEPT ![k] = items[Top(t).c][k]]])
            /\ UNCHANGED <<items, mu, ret>>
    /\ UNCHANGED <<started, gencount, genval, first, lastw>>

\* fn returns b (Each's fn returns nothing: b is TRUE).
TravCbReturn(t, b) ==
    /\ Depth(t) > 0
    /\ Top(t).op \in RangeOps
    /\ Top(t).pc = "incb"
    /\ ~Blocked(t)
    /\ Top(t).op = "Each" => b
    /\ IF TravStops(Top(t).op, b)
       THEN /\ mu' = [mu EXCEPT ![Top(t).c] = RUnlock(@, t)]
            /\ Return(t, TravResult(Top(t).op, Top(t).c, items[Top(t).c],
                                    Top(t).k, TRUE, Top(t).res))
       ELSE /\ Goto(t, [Top(t) EXCEPT
                          !.pc = "iter",
                          !.res = TravCollect(Top(t).op, @, items[Top(t).c],
                                              Top(t).k, b)])
            /\ UNCHANGED <<mu, ret>>
    /\ UNCHANGED <<items, started, gencount, genval, first, lastw>>

(***************************************************************************)
(* Sweep: Lock, then `for k, v := range c.items { if fn(v, k, c) {         *)
(* delete(c.items, k); count++ } }`, Unlock on return.                     *)
(***************************************************************************)
SweepLock(t) ==
    /\ Running(t, "Sweep", "lock")
    /\ CanLock(mu[Top(t).c])
    /\ mu' = [mu EXCEPT ![Top(t).c] = Lock(@, t)]
    /\ lastw' = [lastw EXCEPT ![Top(t).c] = Writer(t, Top(t))]
    /\ Goto(t, [Top(t) EXCEPT !.pc = "range"])
    /\ UNCHANGED <<items, started, ret, gencount, genval, first>>

SweepRange(t) ==
    /\ Running(t, "Sweep", "range")
    /\ Goto(t, [Top(t) EXCEPT !.pc = "iter", !.rem = KeysOf(items[Top(t).c])])
    /\ UNCHANGED <<items, mu, started, ret, gencount, genval, first, lastw>>

SweepIter(t) ==
    /\ Running(t, "Sweep", "iter")
    /\ IF Top(t).rem = {}
       THEN /\ mu' = [mu EXCEPT ![Top(t).c] = Unlock(@, t)]
            /\ Return(t, <<"Sweep", Top(t).cnt>>)
       ELSE /\ \E k \in Top(t).rem :
                 Goto(t, [Top(t) EXCEPT !.pc = "incb", !.k = k,
                                        !.rem = @ \ {k}, !.n = 0])
            /\ UNCHANGED <<mu, ret>>
    /\ UNCHANGED <<items, started, gencount, genval, first, lastw>>

\* count after fn returned b.
SweepCountCalls(count, b) == count + 1
SweepCount(count, b) == IF b THEN count + 1 ELSE count

SweepCbReturn(t, b) ==
    /\ Running(t, "Sweep", "incb")
    /\ items' = IF b THEN [items EXCEPT ![Top(t).c] = DeleteStore(@, Top(t).k)]
                ELSE items
    /\ Goto(t, [Top(t) EXCEPT !.pc = "iter",
                              !.cnt = SweepCount(@, b)])
    /\ UNCHANGED <<mu, started, ret, gencount, genval, first, lastw>>

(***************************************************************************)
(* Binary operations c.Op(other): Equals returns true at once when other   *)
(* is c; otherwise, and in every other operation, c.mu.RLock() and then    *)
(* other.mu.RLock(), the result, and on return other.mu.RUnlock() and      *)
(* c.mu.RUnlock().  Union fills its result with c.Clone(), which takes     *)
(* c's shared lock itself.                                                 *)
(***************************************************************************)
BinOps == {"Equals", "Union", "Intersection", "Difference",
           "SymmetricDifference"}

EqualsSelf(op, c, o) == op = "Equals" /\ c = o

CloneOfNothing(its) == EmptyMap
CloneOf(its) == [k \in Keys |-> its[k]]

UnionOfOtherWins(clone, b) ==
    [k \in Keys |-> IF b[k] # Absent THEN b[k] ELSE clone[k]]
UnionOf(clone, b) ==
    [k \in Keys |-> IF clone[k] # Absent THEN clone[k] ELSE b[k]]
IntersectionOfMissing(a, b) ==
    [k \in Keys |-> IF a[k] # Absent /\ b[k] = Absent THEN a[k] ELSE Absent]
IntersectionOf(a, b) ==
    [k \in Keys |-> IF a[k] # Absent /\ b[k] # Absent THEN a[k] ELSE Absent]
DifferenceOfAll(a, b) == [k \in Keys |-> a[k]]
DifferenceOf(a, b) ==
    [k \in Keys |-> IF a[k] # Absent /\ b[k] = Absent THEN a[k] ELSE Absent]
SymmetricDifferenceOneSided(a, b) ==
    [k \in Keys |-> IF a[k] # Absent /\ b[k] = Absent THEN a[k] ELSE Absent]
SymmetricDifferenceOf(a, b) ==
    [k \in Keys |-> IF a[k] # Absent /\ b[k] = Absent THEN a[k]
                    ELSE IF b[k] # Absent /\ a[k] = Absent THEN b[k]
                    ELSE Absent]
EqualsOfAnySize(a, b) == \A k \in KeysOf(a) : b[k] # Absent /\ a[k] = b[k]
EqualsOf(a, b) ==
    /\ SizeOf(a) = SizeOf(b)
    /\ \A k \in KeysOf(a) : b[k] # Absent /\ a[k] = b[k]

BinResult(op, a, b, clone) ==
    CASE op = "Equals" -> <<"Equals", EqualsOf(a, b)>>
      [] op = "Union" -> <<"Union", UnionOf(clone, b)>>
      [] op = "Intersection" -> <<"Intersection", IntersectionOf(a, b)>>
      [] op = "Difference" -> <<"Difference", DifferenceOf(a, b)>>
      [] op = "SymmetricDifference" ->
            <<"SymmetricDifference", SymmetricDifferenceOf(a, b)>>

\* MergeCollection takes the two shared locks the same way.
TwoLockOps == BinOps \cup {"Merge"}

BinRLock(t) ==
    /\ Depth(t) > 0
    /\ Top(t).op \in TwoLockOps
    /\ Top(t).pc = "rlock"
    /\ ~Blocked(t)
    /\ IF EqualsSelf(Top(t).op, Top(t).c, Top(t).o)
       THEN /\ Return(t, <<"Equals", TRUE>>)
            /\ UNCHANGED mu
       ELSE /\ mu' = [mu EXCEPT ![Top(t).c] = RLock(@, t)]
            /\ Goto(t, [Top(t) EXCEPT !.pc = "rlock2"])
            /\ UNCHANGED ret
    /\ UNCHANGED <<items, started, gencount, genval, first, lastw>>

BinRLockOther(t) ==
    /\ Depth(t) > 0
    /\ Top(t).op \in TwoLockOps
    /\ Top(t).pc = "rlock2"
    /\ ~Blocked(t)
    /\ mu' = [mu EXCEPT ![Top(t).o] = RLock(@, t)]
    /\ Goto(t, [Top(t) EXCEPT
                  !.pc = IF Top(t).op = "Union" THEN "clone"
                         ELSE IF Top(t).op = "Merge" THEN "range"
                         ELSE "body"])
    /\ UNCHANGED <<items, started, ret, gencount, genval, first, lastw>>

\* Union calls c.Clone(): Clone's c.mu.RLock().
UnionCloneRLock(t) ==
    /\ Running(t, "Union", "clone")
    /\ mu' = [mu EXCEPT ![Top(t).c] = RLock(@, t)]
    /\ Goto(t, [Top(t) EXCEPT !.pc = "cloned"])
    /\ UNCHANGED <<items, started, ret, gencount, genval, first, lastw>>

\* Clone copies the entries and returns (its deferred c.mu.RUnlock()).
UnionCloneBody(t) ==
    /\ Running(t, "Union", "cloned")
    /\ mu' = [mu EXCEPT ![Top(t).c] = RUnlock(@, t)]
    /\ Goto(t, [Top(t) EXCEPT !.pc = "body", !.res = CloneOf(items[Top(t).c])])
    /\ UNCHANGED <<items, started, ret, gencount, genval, first, lastw>>

BinBody(t) ==
    /\ Depth(t) > 0
    /\ Top(t).op \in BinOps
    /\ Top(t).pc = "body"
    /\ ~Blocked(t)
    /\ mu' = LET m1 == [mu EXCEPT ![Top(t).o] = RUnlock(@, t)]
             IN  [m1 EXCEPT ![Top(t).c] = RUnlock(@, t)]
    /\ LET r == BinResult(Top(t).op, items[Top(t).c], items[Top(t).o],
                          Top(t).res)
       IN  /\ items' = IF Top(t).op = "Equals" THEN items
                       ELSE NewWith(Top(t).d, r[2])
           /\ Return(t, r)
    /\ UNCHANGED <<started, gencount, genval, first, lastw>>

(***************************************************************************)
(* Clone: RLock, copy the entries into a new container, RUnlock.           *)
(***************************************************************************)
CloneRLock(t) ==
    /\ Running(t, "Clone", "rlock")
    /\ mu' = [mu EXCEPT ![Top(t).c] = RLock(@, t)]
    /\ Goto(t, [Top(t) EXCEPT !.pc = "body"])
    /\ UNCHANGED <<items, started, ret, gencount, genval, first, lastw>>

CloneBody(t) ==
    /\ Running(t, "Clone", "body")
    /\ mu' = [mu EXCEPT ![Top(t).c] = RUnlock(@, t)]
    /\ items' = NewWith(Top(t).d, CloneOf(items[Top(t).c]))
    /\ Return(t, <<"Clone", CloneOf(items[Top(t).c])>>)
    /\ UNCHANGED <<started, gencount, genval, first, lastw>>

(***************************************************************************)
(* Tap: `fn(c); return c`, with no lock taken.                             *)
(***************************************************************************)
TapResultNone(c) == <<"Tap", NoCol>>
TapResult(c) == <<"Tap", c>>

\* fn returns, and Tap returns the receiver.
TapCbReturn(t) ==
    /\ Running(t, "Tap", "incb")
    /\ Return(t, TapResult(Top(t).c))
    /\ UNCHANGED <<items, mu, started, gencount, genval, first, lastw>>

(***************************************************************************)
(* Ensure.                                                                 *)
(***************************************************************************)
EnsureFoundNever(its, k) == FALSE
EnsureFound(its, k) == its[k] # Absent

\* What Ensure does to its shared lock before it runs the generator.
EnsureReleaseLate(m, t) == m
EnsureRelease(m, t) == RUnlock(m, t)

EnsureStoreAlways(its, k, def) == [its EXCEPT ![k] = def]
EnsureStore(its, k, def) ==
    IF its[k] # Absent THEN its ELSE [its EXCEPT ![k] = def]

EnsureResultOwn(its, k, def) == def
EnsureResult(its, k, def) ==
    IF its[k] # Absent THEN its[k] ELSE def

EnsureRLock(t) ==
    /\ Running(t, "Ensure", "rlock")
    /\ mu' = [mu EXCEPT ![Top(t).c] = RLock(@, t)]
    /\ Goto(t, [Top(t) EXCEPT !.pc = "check"])
    /\ UNCHANGED <<items, started, ret, gencount, genval, first, lastw>>

EnsureCheck(t) ==
    /\ Running(t, "Ensure", "check")
    /\ IF EnsureFound(items[Top(t).c], Top(t).k)
       THEN /\ mu' = [mu EXCEPT ![Top(t).c] = RUnlock(@, t)]
            /\ Return(t, <<"Ensure", items[Top(t).c][Top(t).k]>>)
            /\ UNCHANGED gencount
       ELSE /\ mu' = [mu EXCEPT ![Top(t).c] = EnsureRelease(@, t)]
            /\ Goto(t, [Top(t) EXCEPT !.pc = "ingen"])
            /\ gencount' = IF Depth(t) = 1
                           THEN [gencount EXCEPT ![t] = @ + 1]
                           ELSE gencount
            /\ UNCHANGED ret
    /\ UNCHANGED <<items, started, genval, first, lastw>>

\* The generator returns v.
EnsureGenReturn(t, v) ==
    /\ Running(t, "Ensure", "ingen")
    /\ Goto(t, [Top(t) EXCEPT !.pc = "lock", !.v = v])
    /\ genval' = IF Depth(t) = 1 THEN [genval EXCEPT ![t] = v] ELSE genval
    /\ UNCHANGED <<items, mu, started, ret, gencount, first, lastw>>

EnsureLock(t) ==
    /\ Running(t, "Ensure", "lock")
    /\ CanLock(mu[Top(t).c])
    /\ mu' = [mu EXCEPT ![Top(t).c] = Lock(@, t)]
    /\ lastw' = [lastw EXCEPT ![Top(t).c] = Writer(t, Top(t))]
    /\ Goto(t, [Top(t) EXCEPT !.pc = "commit"])
    /\ UNCHANGED <<items, started, ret, gencount, genval, first>>

EnsureCommit(t) ==
    /\ Running(t, "Ensure", "commit")
    /\ items' = [items EXCEPT ![Top(t).c] = EnsureStore(@, Top(t).k, Top(t).v)]
    /\ mu' = [mu EXCEPT ![Top(t).c] = Unlock(@, t)]
    /\ Return(t, <<"Ensure", EnsureResult(items[Top(t).c], Top(t).k, Top(t).v)>>)
    /\ UNCHANGED <<started, gencount, genval, first, lastw>>

(***************************************************************************)
(* Ensure, Set and Delete called by several goroutines on one container;   *)
(* the generators call nothing.                                            *)
(***************************************************************************)
Init ==
    /\ items = [c \in Cols |-> EmptyMap]
    /\ mu = [c \in Cols |-> FreeMutex]
    /\ stack = [t \in Threads |-> <<>>]
    /\ started = [t \in Threads |-> FALSE]
    /\ ret = [t \in Threads |-> NoRet]
    /\ gencount = [t \in Threads |-> 0]
    /\ genval = [t \in Threads |-> Absent]
    /\ first = [t \in Threads |-> NoFrame]
    /\ lastw = [c \in Cols |-> NoWriter]

EnsureThreads == 1..NThreads

EnsureFrames ==
    {Frame("Ensure", "A", "A", k, Absent) : k \in Keys}
    \cup {Frame("Set", "A", "A", k, v) : k \in Keys, v \in Vals}
    \cup {Frame("Delete", "A", "A", 1, Absent)}

NextEnsure ==
    \/ \E t \in EnsureThreads, f \in EnsureFrames : Call(t, f)
    \/ \E t \in Threads : SetLock(t)
    \/ \E t \in Threads : SetBody(t)
    \/ \E t \in Threads : DeleteLock(t)
    \/ \E t \in Threads : DeleteBody(t)
    \/ \E t \in Threads : EnsureRLock(t)
    \/ \E t \in Threads : EnsureCheck(t)
    \/ \E t \in Threads, v \in Vals : EnsureGenReturn(t, v)
    \/ \E t \in Threads : EnsureLock(t)
    \/ \E t \in Threads : EnsureCommit(t)

SpecEnsure == Init /\ [][NextEnsure]_vars

\* Goroutine t's call of op has returned.
Observed(t, op) == started[t] /\ Idle(t) /\ first[t].op = op

EnsuredBy(t, k) ==
    started[t] /\ Idle(t) /\ first[t].op = "Ensure" /\ first[t].k = k

\* C1: when every goroutine calls Ensure on the same key of an empty
\* container and nothing else mutates it, then after all calls have returned
\* the container holds exactly one entry, for that key, and every call
\* returned the value stored there (the generator may have run several times).
C1_EnsureOneEntry ==
    \A k \in Keys :
        (\A t \in EnsureThreads : EnsuredBy(t, k))
        => /\ KeysOf(items["A"]) = {k}
           /\ \A t \in EnsureThreads : ret[t] = <<"Ensure", items["A"][k]>>

\* All goroutines ensured key 1, the generator ran on every one of them, and
\* one of them got back a value its own generator did not produce.
C1_Witness ==
    /\ \A t \in EnsureThreads : EnsuredBy(t, 1) /\ gencount[t] = 1
    /\ \E t \in EnsureThreads : ret[t] # <<"Ensure", genval[t]>>

\* C3: Ensure's commit step never overwrites: with the key present under the
\* exclusive lock the map is left as it is and the stored value is returned;
\* only with the key absent is the generated value stored (and returned).
C3_EnsureNeverOverwrites ==
    [][\A t \in Threads :
         (Running(t, "Ensure", "commit") /\ stack'[t] # stack[t])
         => IF items[Top(t).c][Top(t).k] # Absent
            THEN /\ items' = items
                 /\ ret'[t] = <<"Ensure", items[Top(t).c][Top(t).k]>>
            ELSE /\ items' = [items EXCEPT ![Top(t).c][Top(t).k] = Top(t).v]
                 /\ ret'[t] = <<"Ensure", Top(t).v>>]_vars

\* An Ensure has returned a stored value that differs from the value its
\* generator produced, and the map still holds the stored value.
C3_Witness ==
    \E t \in EnsureThreads :
        /\ started[t] /\ Idle(t) /\ first[t].op = "Ensure"
        /\ gencount[t] = 1
        /\ ret[t] # <<"Ensure", genval[t]>>
        /\ ret[t] = <<"Ensure", items["A"][first[t].k]>>

\* C4: with the key present at Ensure's first check, Ensure returns the
\* value found, does not invoke the generator and leaves the map unchanged.
C4_EnsureFastPath ==
    [][\A t \in Threads :
         (/\ Running(t, "Ensure", "check")
          /\ stack'[t] # stack[t]
          /\ items[Top(t).c][Top(t).k] # Absent)
         => /\ Len(stack'[t]) = Len(stack[t]) - 1
            /\ ret'[t] = <<"Ensure", items[Top(t).c][Top(t).k]>>
            /\ gencount' = gencount
            /\ genval' = genval
            /\ items' = items]_vars

\* An Ensure has returned without its generator having run.
C4_Witness ==
    \E t \in EnsureThreads :
        /\ started[t] /\ Idle(t) /\ first[t].op = "Ensure"
        /\ gencount[t] = 0
        /\ ret[t] = <<"Ensure", items["A"][first[t].k]>>
        /\ items["A"][first[t].k] # Absent

SetBy(t, k) ==
    started[t] /\ Idle(t) /\ first[t].op = "Set" /\ first[t].k = k

\* C10: when every goroutine calls Set on the same key and nothing else
\* mutates the container, then after all calls have returned the key holds
\* the value of the Set that took the exclusive lock last, which is one of
\* the values written; the key has one entry.
C10_LastSetWins ==
    \A k \in Keys :
        (\A t \in EnsureThreads : SetBy(t, k))
        => /\ lastw["A"].op = "Set" /\ lastw["A"].k = k
           /\ items["A"][k] = lastw["A"].v
           /\ \E t \in EnsureThreads :
                 lastw["A"].t = t /\ first[t].v = items["A"][k]
           /\ KeysOf(items["A"]) = {k}

\* All goroutines have Set key 1, with different values, and returned.
C10_Witness ==
    /\ \A t \in EnsureThreads : SetBy(t, 1)
    /\ \E t, u \in EnsureThreads : first[t].v # first[u].v
    /\ items["A"][1] = lastw["A"].v

\* C16: Set(k, v) returns the receiver; in the state it leaves, k is mapped
\* to v, every other key is mapped as before, and the map holds one entry
\* more if k was absent and as many as before if k was present.
C16_SetStores ==
    [][\A t \in Threads :
         (Depth(t) = 1 /\ Top(t).op = "Set" /\ Depth(t)' = 0)
         => LET c == Top(t).c
                k == Top(t).k
            IN  /\ ret'[t] = <<"Set", c>>
                /\ items'[c][k] = Top(t).v
                /\ \A j \in Keys \ {k} : items'[c][j] = items[c][j]
                /\ SizeOf(items'[c]) =
                      SizeOf(items[c]) + IF items[c][k] = Absent THEN 1 ELSE 0]_vars

\* A Set has returned after overwriting the value another Set had stored.
C16_Witness ==
    \E t, u \in EnsureThreads :
        /\ t # u
        /\ SetBy(t, 1) /\ SetBy(u, 1)
        /\ first[t].v # first[u].v
        /\ lastw["A"].t = t
        /\ items["A"][1] = first[t].v
        /\ ret[t] = <<"Set", "A">>

\* C17: Delete(k) returns true exactly when k was present; it leaves k
\* absent and every other key mapped as before; on a key that is absent (as
\* after a first Delete of it) it returns false and changes nothing.
C17_DeleteRemoves ==
    [][\A t \in Threads :
         (Depth(t) = 1 /\ Top(t).op = "Delete" /\ Depth(t)' = 0)
         => LET c == Top(t).c
                k == Top(t).k
            IN  /\ ret'[t] = <<"Delete", items[c][k] # Absent>>
                /\ items'[c][k] = Absent
                /\ \A j \in Keys \ {k} : items'[c][j] = items[c][j]
                /\ items[c][k] = Absent
                      => items' = items /\ ret'[t] = <<"Delete", FALSE>>]_vars

\* A Delete has returned true: it removed the entry a Set had stored.
C17_Witness ==
    \E t, u \in EnsureThreads :
        /\ SetBy(u, 1)
        /\ Observed(t, "Delete") /\ first[t].k = 1
        /\ ret[t] = <<"Delete", TRUE>>
        /\ items["A"][1] = Absent

(***************************************************************************)
(* Ensure with a generator that calls the container it is given: Set,      *)
(* Delete, a read accessor or another Ensure.                              *)
(***************************************************************************)
GenThreads == 1..NGenThreads

GenTopFrames == {Frame("Ensure", "A", "A", k, Absent) : k \in Keys}

\* What a generator called with key k calls: it works on the key it is given.
GenFrames(k) ==
    {Leaf(Frame("Ensure", "A", "A", k, Absent))}
    \cup {Leaf(Frame("Set", "A", "A", k, v)) : v \in Vals}
    \cup {Leaf(Frame("Delete", "A", "A", k, Absent))}
    \cup {Leaf(Frame(op, "A", "A", k, Absent)) : op \in ReadOps}

NextGen ==
    \/ \E t \in GenThreads, f \in GenTopFrames : Call(t, f)
    \/ \E t \in GenThreads, k \in Keys :
          \E f \in GenFrames(k) :
              Depth(t) > 0 /\ Top(t).k = k /\ Nested(t, f)
    \/ \E t \in Threads : SetLock(t)
    \/ \E t \in Threads : SetBody(t)
    \/ \E t \in Threads : DeleteLock(t)
    \/ \E t \in Threads : DeleteBody(t)
    \/ \E t \in Threads : ReadRLock(t)
    \/ \E t \in Threads : ReadBody(t)
    \/ \E t \in Threads : EnsureRLock(t)
    \/ \E t \in Threads : EnsureCheck(t)
    \/ \E t \in Threads, v \in Vals : EnsureGenReturn(t, v)
    \/ \E t \in Threads : EnsureLock(t)
    \/ \E t \in Threads : EnsureCommit(t)

SpecGen == Init /\ [][NextGen]_vars

InGenerator(t) == Depth(t) > 0 /\ Top(t).op = "Ensure" /\ Top(t).pc = "ingen"

\* C2: while a generator runs, the goroutine it runs on holds no lock of the
\* container, shared or exclusive, and is not waiting for one; and whatever
\* the generator calls on the container (Set, Delete, Size, Has, Get, Ensure), a
\* goroutine that is inside a call can always take a step or wait for one
\* that can: no state is a deadlock, so the outer Ensure returns.
C2_GeneratorRunsUnlocked ==
    /\ \A t \in Threads : InGenerator(t) => HoldsNoLock(t)
    /\ ~Deadlock

\* An Ensure whose generator called Set on the key being ensured has
\* returned, with the value that Set stored.
C2_Witness ==
    \E t \in GenThreads :
        /\ started[t] /\ Idle(t)
        /\ gencount[t] = 1
        /\ lastw["A"].op = "Ensure"
        /\ ret[t] = <<"Ensure", items["A"][first[t].k]>>
        /\ ret[t] # <<"Ensure", genval[t]>>

(***************************************************************************)
(* Mutators (called by the odd goroutines) and accessors (called by the    *)
(* even ones) of one container that holds entries; the callbacks call      *)
(* nothing.                                                                *)
(***************************************************************************)
\* The containers hold one of the mappings S (each is what some calls of
\* Set leave); no goroutine has started.
InitWith(S) ==
    /\ items \in S
    /\ mu = [c \in Cols |-> FreeMutex]
    /\ stack = [t \in Threads |-> <<>>]
    /\ started = [t \in Threads |-> FALSE]
    /\ ret = [t \in Threads |-> NoRet]
    /\ gencount = [t \in Threads |-> 0]
    /\ genval = [t \in Threads |-> Absent]
    /\ first = [t \in Threads |-> NoFrame]
    /\ lastw = [c \in Cols |-> NoWriter]

\* Container A holds every key (as after Set of each of them) or none, B is
\* empty.
FullMap == [k \in Keys |-> 1]
InitLock ==
    InitWith({[c \in Cols |-> IF c = "A" THEN m ELSE EmptyMap] :
                 m \in {FullMap, EmptyMap}})

LockThreads == 1..NLockThreads

LockFrames ==
    {Frame("Set", "A", "A", k, 2) : k \in Keys}
    \cup {Frame("Delete", "A", "A", 1, Absent)}
    \cup {Frame(op, "A", "A", 1, Absent) : op \in RebuildOps}
    \cup {Frame("Sweep", "A", "A", 1, Absent)}
    \cup {Frame("Ensure", "A", "A", 1, Absent)}
    \cup {Frame("Get", "A", "A", 1, Absent)}
    \cup {Frame("Size", "A", "A", 1, Absent)}
    \cup {Frame("Each", "A", "A", 1, Absent)}

NextLock ==
    \/ \E t \in LockThreads, f \in LockFrames :
          /\ t % 2 = 1 => f.op \in LockFirst \cup {"Ensure"}
          /\ t % 2 = 0 => f.op \in ReadOps \cup TravOps
          /\ Call(t, f)
    \/ \E t \in Threads : SetLock(t)
    \/ \E t \in Threads : SetBody(t)
    \/ \E t \in Threads : DeleteLock(t)
    \/ \E t \in Threads : DeleteBody(t)
    \/ \E t \in Threads : RebuildLock(t)
    \/ \E t \in Threads : RebuildBody(t)
    \/ \E t \in Threads : SweepLock(t)
    \/ \E t \in Threads : SweepRange(t)
    \/ \E t \in Threads : SweepIter(t)
    \/ \E t \in Threads, b \in BOOLEAN : SweepCbReturn(t, b)
    \/ \E t \in Threads : ReadRLock(t)
    \/ \E t \in Threads : ReadBody(t)
    \/ \E t \in Threads : TravRLock(t)
    \/ \E t \in Threads : TravRange(t)
    \/ \E t \in Threads : TravIter(t)
    \/ \E t \in Threads, b \in BOOLEAN : TravCbReturn(t, b)
    \/ \E t \in Threads : EnsureRLock(t)
    \/ \E t \in Threads : EnsureCheck(t)
    \/ \E t \in Threads, v \in Vals : EnsureGenReturn(t, v)
    \/ \E t \in Threads : EnsureLock(t)
    \/ \E t \in Threads : EnsureCommit(t)

SpecLock == InitLock /\ [][NextLock]_vars

\* Frame f is inside a critical section of container c under the shared
\* lock (resp. the exclusive lock): past its RLock (resp. Lock) call and
\* before its return.
SharedAt(f, c) ==
    /\ f.c = c
    /\ \/ f.op \in ReadOps \cup TravOps /\ f.pc # "rlock"
       \/ f.op = "Ensure" /\ f.pc = "check"

ExclAt(f, c) ==
    /\ f.c = c
    /\ \/ f.op \in LockFirst /\ f.pc # "lock"
       \/ f.op = "Ensure" /\ f.pc = "commit"

\* Goroutine t is inside such a section: one of its frames is, and t is not
\* still parked in the RLock (resp. Lock) call that opens it.
InShared(t, c) ==
    \E i \in 1..Depth(t) :
        /\ SharedAt(stack[t][i], c)
        /\ i = Depth(t) => t \notin mu[c].rwait

InExclusive(t, c) ==
    \E i \in 1..Depth(t) :
        /\ ExclAt(stack[t][i], c)
        /\ i = Depth(t) => ~(mu[c].writer = t /\ ~mu[c].wactive)

Exclusion ==
    \A c \in Cols : \A t, u \in Threads :
        t # u => /\ ~(InShared(t, c) /\ InExclusive(u, c))
                 /\ ~(InExclusive(t, c) /\ InExclusive(u, c))

\* C5: no goroutine is inside a shared-lock section of a container while
\* another is inside an exclusive-lock section of it (Set, Delete, Clear,
\* Sort, Reverse, Sweep, Ensure's commit), nor are two inside exclusive
\* sections; and from the moment an accessor is inside its section until it
\* leaves, the container's map does not change: it sees the map entirely
\* before or entirely after each mutator.  (Exclusion holds initially, no
\* goroutine being inside a call, and is stated of the state every step
\* leads to.)
C5_MutatorsAtomic ==
    [][/\ Exclusion'
       /\ \A c \in Cols : \A t \in Threads :
             (InShared(t, c) /\ InShared(t, c)') => items'[c] = items[c]]_vars

\* A Sweep has removed an entry and has more to visit, while an accessor
\* of another goroutine is parked in RLock until the Sweep unlocks.
C5_Witness ==
    \E t, u \in LockThreads :
        /\ t # u
        /\ Depth(u) = 1 /\ Top(u).op = "Sweep" /\ Top(u).pc = "iter"
        /\ Top(u).cnt > 0 /\ Top(u).rem # {}
        /\ Depth(t) = 1 /\ Top(t).op \in ReadOps \cup TravOps
        /\ t \in mu["A"].rwait

\* C12: from the moment Each holds the shared lock until it returns the map
\* does not change, whatever Set, Delete, Clear, Sort, Reverse, Sweep or
\* Ensure other goroutines have called; and when Each returns, its callback
\* has been called once for each entry of that map, with the entry's key
\* and value, and for nothing else, and Each returns the receiver.
C12_EachVisitsSnapshot ==
    [][\A t \in Threads :
         (Depth(t) = 1 /\ Top(t).op = "Each")
         => /\ (InShared(t, Top(t).c) /\ Depth(t)' = 1)
                  => items'[Top(t).c] = items[Top(t).c]
            /\ Depth(t)' = 0
                  => /\ Top(t).seen = items[Top(t).c]
                     /\ Top(t).cnt = SizeOf(items[Top(t).c])
                     /\ ret'[t] = <<"Each", Top(t).c>>]_vars

\* An Each has called its callback on one entry and has another to visit,
\* while a Delete or a Clear of another goroutine waits for the lock.
C12_Witness ==
    \E t, u \in LockThreads :
        /\ Depth(t) = 1 /\ Top(t).op = "Each" /\ Top(t).pc = "iter"
        /\ Top(t).cnt = 1 /\ Top(t).rem # {}
        /\ mu["A"].writer = u /\ ~mu["A"].wactive
        /\ first[u].op \in {"Delete", "Clear"}

(***************************************************************************)
(* Traversals and Sweep whose callback calls read accessors of the         *)
(* container it is given, beside goroutines that call Set.                 *)
(***************************************************************************)
InitTraverse ==
    InitWith({[c \in Cols |-> IF c = "A" THEN m ELSE EmptyMap] : m \in Maps})

TravThreads == 1..NTravThreads

TravFrames ==
    {Frame(op, "A", "A", 1, Absent) : op \in TravOps \cup {"Sweep"}}
    \cup {Frame("Set", "A", "A", k, v) : k \in Keys, v \in Vals}

\* What a callback called with key k calls.
CbFrames(k) ==
    {Leaf(Frame(op, "A", "A", k, Absent)) : op \in ReadOps}

NextTraverse ==
    \/ \E t \in TravThreads, f \in TravFrames : Call(t, f)
    \/ \E t \in TravThreads, k \in Keys :
          \E f \in CbFrames(k) :
              Depth(t) > 0 /\ Top(t).k = k /\ Nested(t, f)
    \/ \E t \in Threads : SetLock(t)
    \/ \E t \in Threads : SetBody(t)
    \/ \E t \in Threads : ReadRLock(t)
    \/ \E t \in Threads : ReadBody(t)
    \/ \E t \in Threads : TravRLock(t)
    \/ \E t \in Threads : TravRange(t)
    \/ \E t \in Threads : TravIter(t)
    \/ \E t \in Threads, b \in BOOLEAN : TravCbReturn(t, b)
    \/ \E t \in Threads : SweepLock(t)
    \/ \E t \in Threads : SweepRange(t)
    \/ \E t \in Threads : SweepIter(t)
    \/ \E t \in Threads, b \in BOOLEAN : SweepCbReturn(t, b)

SpecTraverse == InitTraverse /\ [][NextTraverse]_vars

\* C6: with goroutines that run traversals whose callbacks call Size, Has
\* or Get on the container, beside goroutines that call Set, every
\* traversal completes: no state is a deadlock.
C6_CallbackMayRead ==
    (\A t \in Threads : started[t] => first[t].op \in TravOps \cup {"Set"})
    => ~Deadlock

\* C7: a Sweep, run by one goroutine alone, whose predicate calls Size, Has
\* or Get on the container completes: no state is a deadlock.
C7_SweepPredicateMayRead ==
    (\E t \in Threads :
        /\ started[t] /\ first[t].op = "Sweep"
        /\ \A u \in Threads \ {t} : ~started[u])
    => ~Deadlock

(***************************************************************************)
(* Binary operations on containers A and B (in both roles, and on one      *)
(* container twice), beside goroutines that call Set on A and on B.        *)
(***************************************************************************)
InitBinary == InitWith({[c \in Cols |-> FullMap]})

BinThreads == 1..NBinThreads
SetThreads == (NBinThreads + 1)..(NBinThreads + NSetThreads)

BinFrames ==
    {Frame(op, c, o, 1, Absent) : op \in BinOps, c \in {"A", "B"}, o \in {"A", "B"}}
SetFrames == {Frame("Set", c, c, 1, 2) : c \in {"A", "B"}}

NextBinary ==
    \/ \E t \in BinThreads, f \in BinFrames : Call(t, f)
    \/ \E t \in SetThreads, f \in SetFrames : Call(t, f)
    \/ \E t \in Threads : SetLock(t)
    \/ \E t \in Threads : SetBody(t)
    \/ \E t \in Threads : BinRLock(t)
    \/ \E t \in Threads : BinRLockOther(t)
    \/ \E t \in Threads : UnionCloneRLock(t)
    \/ \E t \in Threads : UnionCloneBody(t)
    \/ \E t \in Threads : BinBody(t)

SpecBinary == InitBinary /\ [][NextBinary]_vars

\* C8: with goroutines that run Equals, Intersection, Difference or
\* SymmetricDifference on two different containers, in either order of the
\* operands, beside goroutines that call Set on them, no state is a deadlock.
C8_BinaryLockOrder ==
    (\A t \in Threads :
        started[t] =>
            /\ first[t].op \in (BinOps \ {"Union"}) \cup {"Set"}
            /\ first[t].op \in BinOps => first[t].c # first[t].o)
    => ~Deadlock

\* C9: a binary operation whose two operands are the same container takes
\* no lock of it: the goroutine running it holds no lock and waits for none.
C9_SelfShortCircuit ==
    \A t \in Threads :
        (Depth(t) > 0 /\ Top(t).op \in BinOps /\ Top(t).c = Top(t).o)
        => HoldsNoLock(t)

(***************************************************************************)
(* Set and Ensure (called by the odd goroutines) beside Has, Get and Size  *)
(* (called by the even ones) on one container that starts empty.           *)
(***************************************************************************)
GrowThreads == 1..NGrowThreads

GrowFrames ==
    {Frame("Set", "A", "A", k, 1) : k \in Keys}
    \cup {Frame("Ensure", "A", "A", 1, Absent)}
    \cup {Frame("Has", "A", "A", k, Absent) : k \in Keys}
    \cup {Frame("Get", "A", "A", 1, Absent)}
    \cup {Frame("Size", "A", "A", 1, Absent)}

NextGrow ==
    \/ \E t \in GrowThreads, f \in GrowFrames :
          /\ t % 2 = 1 => f.op \in {"Set", "Ensure"}
          /\ t % 2 = 0 => f.op \in ReadOps
          /\ Call(t, f)
    \/ \E t \in Threads : SetLock(t)
    \/ \E t \in Threads : SetBody(t)
    \/ \E t \in Threads : ReadRLock(t)
    \/ \E t \in Threads : ReadBody(t)
    \/ \E t \in Threads : EnsureRLock(t)
    \/ \E t \in Threads : EnsureCheck(t)
    \/ \E t \in Threads, v \in Vals : EnsureGenReturn(t, v)
    \/ \E t \in Threads : EnsureLock(t)
    \/ \E t \in Threads : EnsureCommit(t)

SpecGrow == Init /\ [][NextGrow]_vars

\* C11: with Set and Ensure as the only mutators, a key that a returned Has
\* or Get reported present is present in every state from then on (so every
\* later Has and Get reports it present), and the map never holds fewer
\* entries than a returned Size reported (so no later Size is smaller).
C11_KeySetGrows ==
    \A t \in GrowThreads :
        /\ (Observed(t, "Has") /\ ret[t] = <<"Has", TRUE>>)
              => items["A"][first[t].k] # Absent
        /\ (Observed(t, "Get") /\ ret[t][2][2])
              => items["A"][first[t].k] # Absent
        /\ Observed(t, "Size") => SizeOf(items["A"]) >= ret[t][2]

\* A Size returned 1 and the map has since grown to two entries.
C11_Witness ==
    \E t \in GrowThreads :
        /\ Observed(t, "Size")
        /\ ret[t] = <<"Size", 1>>
        /\ SizeOf(items["A"]) = 2

(***************************************************************************)
(* Keys, Values, HasAll, HasAny: RLock, compute the result, RUnlock.  A Go *)
(* map is ranged over in any order, so Keys and Values have several        *)
(* possible results.                                                       *)
(***************************************************************************)
ValuesOf(its) ==
    {[i \in 1..Len(o) |-> its[o[i]]] : o \in Orders(KeysOf(its))}

RECURSIVE HasAllFrom(_, _, _)
\* HasAll's loop from the i-th argument on: false at the first key missing.
HasAllFrom(its, keys, i) ==
    IF i > Len(keys) THEN TRUE
    ELSE IF its[keys[i]] = Absent THEN FALSE
    ELSE HasAllFrom(its, keys, i + 1)

RECURSIVE HasAnyFrom(_, _, _)
\* HasAny's loop from the i-th argument on: true at the first key present.
HasAnyFrom(its, keys, i) ==
    IF i > Len(keys) THEN FALSE
    ELSE IF its[keys[i]] # Absent THEN TRUE
    ELSE HasAnyFrom(its, keys, i + 1)

HasAllOfFirst(its, keys) == Len(keys) > 0 /\ its[keys[1]] # Absent
HasAllOf(its, keys) == HasAllFrom(its, keys, 1)
HasAnyOf(its, keys) == HasAnyFrom(its, keys, 1)

QueryOps == {"Keys", "Values", "HasAll", "HasAny"}

\* The results the call can return.
QueryResults(op, its, keys) ==
    CASE op = "Keys" -> KeysUnlocked(its)
      [] op = "Values" -> ValuesOf(its)
      [] op = "HasAll" -> {HasAllOf(its, keys)}
      [] op = "HasAny" -> {HasAnyOf(its, keys)}

QueryRLock(t) ==
    /\ Depth(t) > 0
    /\ Top(t).op \in QueryOps
    /\ Top(t).pc = "rlock"
    /\ ~Blocked(t)
    /\ mu' = [mu EXCEPT ![Top(t).c] = RLock(@, t)]
    /\ Goto(t, [Top(t) EXCEPT !.pc = "body"])
    /\ UNCHANGED <<items, started, ret, gencount, genval, first, lastw>>

QueryBody(t) ==
    /\ Depth(t) > 0
    /\ Top(t).op \in QueryOps
    /\ Top(t).pc = "body"
    /\ ~Blocked(t)
    /\ mu' = [mu EXCEPT ![Top(t).c] = RUnlock(@, t)]
    /\ \E r \in QueryResults(Top(t).op, items[Top(t).c], Top(t).args) :
          Return(t, <<Top(t).op, r>>)
    /\ UNCHANGED <<items, started, gencount, genval, first, lastw>>

(***************************************************************************)
(* The accessors Size, Keys, Values, HasAll and HasAny on a container that *)
(* holds any mapping (every mapping is what some calls of Set leave).      *)
(***************************************************************************)
QueryThreads == 1..NQueryThreads

\* The argument lists of HasAll and HasAny: none, one key, two keys.
ArgLists ==
    {<<>>} \cup {<<k>> : k \in Keys} \cup {<<k, j>> : k \in Keys, j \in Keys}

QueryFrames ==
    {Frame(op, "A", "A", 1, Absent) : op \in {"Size", "Keys", "Values"}}
    \cup {[Frame(op, "A", "A", 1, Absent) EXCEPT !.args = a] :
             op \in {"HasAll", "HasAny"}, a \in ArgLists}

NextQuery ==
    \/ \E t \in QueryThreads, f \in QueryFrames : Call(t, f)
    \/ \E t \in Threads : ReadRLock(t)
    \/ \E t \in Threads : ReadBody(t)
    \/ \E t \in Threads : QueryRLock(t)
    \/ \E t \in Threads : QueryBody(t)

SpecQuery == InitTraverse /\ [][NextQuery]_vars

\* How often x occurs in the sequence s.
Count(s, x) == Cardinality({i \in 1..Len(s) : s[i] = x})

\* Goroutine t's call of op returns in this step, its frame being f.
Returns(t, op) == Depth(t) = 1 /\ Top(t).op = op /\ Depth(t)' = 0

\* C13: whatever mapping the container holds, Size returns the number of
\* its keys, Keys returns a sequence of that length in which every key of
\* the mapping occurs once and no other key occurs, and Values returns a
\* sequence of that length in which every value occurs as often as there are
\* keys mapped to it.
C13_SizeKeysValues ==
    [][\A t \in Threads :
         LET its == items[Top(t).c]
             r == ret'[t][2]
         IN  /\ Returns(t, "Size") => r = Cardinality({k \in Keys : its[k] # Absent})
             /\ Returns(t, "Keys")
                  => /\ Len(r) = Cardinality({k \in Keys : its[k] # Absent})
                     /\ \A k \in Keys :
                           Count(r, k) = IF its[k] # Absent THEN 1 ELSE 0
             /\ Returns(t, "Values")
                  => /\ Len(r) = Cardinality({k \in Keys : its[k] # Absent})
                     /\ \A v \in Vals :
                           Count(r, v) = Cardinality({k \in Keys : its[k] = v})]_vars

\* Keys has returned both keys of a container that holds two entries.
C13_Witness ==
    \E t \in QueryThreads :
        /\ Observed(t, "Keys")
        /\ Len(ret[t][2]) = 2
        /\ SizeOf(items["A"]) = 2

\* C18: HasAll returns true exactly when every key of its argument list is
\* present, HasAny exactly when one of them is; with no argument HasAll
\* returns true and HasAny false, whatever the container holds.
C18_HasAllHasAny ==
    [][\A t \in Threads :
         LET its == items[Top(t).c]
             listed == {Top(t).args[i] : i \in DOMAIN Top(t).args}
         IN  /\ Returns(t, "HasAll")
                  => /\ ret'[t][2] = (\A k \in listed : its[k] # Absent)
                     /\ Top(t).args = <<>> => ret'[t][2] = TRUE
             /\ Returns(t, "HasAny")
                  => /\ ret'[t][2] = (\E k \in listed : its[k] # Absent)
                     /\ Top(t).args = <<>> => ret'[t][2] = FALSE]_vars

\* HasAll of no key has returned true on a container that is not empty, or
\* HasAll of a present and a missing key has returned false.
C18_Witness ==
    \E t \in QueryThreads :
        /\ Observed(t, "HasAll")
        /\ items["A"] # EmptyMap
        /\ \/ first[t].args = <<>> /\ ret[t][2]
           \/ /\ Len(first[t].args) = 2
              /\ items["A"][first[t].args[1]] # Absent
              /\ items["A"][first[t].args[2]] = Absent
              /\ ~ret[t][2]

(***************************************************************************)
(* Goroutine 1 calls a method that returns a new container (Clone, Filter, *)
(* a binary operation), made by New() as N; goroutine 2 calls Set, Delete  *)
(* or Clear on A, on B, or on N once it has been returned.                 *)
(***************************************************************************)
\* B holds every key but the first.
HalfMap == [k \in Keys |-> IF k = 1 THEN Absent ELSE 1]

InitDerive ==
    InitWith({[c \in Cols |-> CASE c = "A" -> m
                                [] c = "B" -> HalfMap
                                [] c = "N" -> EmptyMap] : m \in Maps})

DeriveThreads == {1}
MutateThreads == {2}

DerivedOps == {"Filter"} \cup BinOps

DeriveFrames ==
    {Making(Frame(op, "A", "A", 1, Absent), "N") : op \in {"Clone", "Filter"}}
    \cup {Making(Frame(op, "A", "B", 1, Absent), "N") : op \in BinOps}
    \cup {Making(Frame(op, "B", "A", 1, Absent), "N") : op \in BinOps}

MutateFrames ==
    {Frame("Set", c, c, 1, 2) : c \in Cols}
    \cup {Frame("Delete", c, c, 1, Absent) : c \in Cols}
    \cup {Frame("Clear", c, c, 1, Absent) : c \in Cols}

\* Container c exists: it is A or B, or the call that made it has returned.
Live(c) ==
    \/ c \in {"A", "B"}
    \/ \E u \in Threads : started[u] /\ Idle(u) /\ first[u].d = c

NextDerive ==
    \/ \E t \in DeriveThreads, f \in DeriveFrames : Call(t, f)
    \/ \E t \in MutateThreads, f \in MutateFrames : Live(f.c) /\ Call(t, f)
    \/ \E t \in Threads : SetLock(t)
    \/ \E t \in Threads : SetBody(t)
    \/ \E t \in Threads : DeleteLock(t)
    \/ \E t \in Threads : DeleteBody(t)
    \/ \E t \in Threads : RebuildLock(t)
    \/ \E t \in Threads : RebuildBody(t)
    \/ \E t \in Threads : CloneRLock(t)
    \/ \E t \in Threads : CloneBody(t)
    \/ \E t \in Threads : TravRLock(t)
    \/ \E t \in Threads : TravRange(t)
    \/ \E t \in Threads : TravIter(t)
    \/ \E t \in Threads, b \in BOOLEAN : TravCbReturn(t, b)
    \/ \E t \in Threads : BinRLock(t)
    \/ \E t \in Threads : BinRLockOther(t)
    \/ \E t \in Threads : UnionCloneRLock(t)
    \/ \E t \in Threads : UnionCloneBody(t)
    \/ \E t \in Threads : BinBody(t)

SpecDerive == InitDerive /\ [][NextDerive]_vars

\* Goroutine t's call of op, which made a container, has returned.
Made(t, op) == Observed(t, op) /\ first[t].d # NoCol

\* Goroutine t takes a step of a Set, Delete or Clear of container c.
Mutates(t, c) ==
    /\ Depth(t) = 1
    /\ Top(t).op \in {"Set", "Delete", "Clear"}
    /\ Top(t).c = c
    /\ stack'[t] # stack[t]

\* C14: when Clone returns, the container it made is not the receiver, the
\* receiver's map is what it was, and the new container Equals the receiver
\* (same size, same value for every key); from then on a Set, Delete or
\* Clear of the clone leaves the original's map (its Size and every Get) as
\* it is, and one of the original leaves the clone's map as it is.
C14_CloneIndependent ==
    [][\A t \in Threads :
         /\ Returns(t, "Clone")
              => /\ Top(t).d # Top(t).c
                 /\ items'[Top(t).c] = items[Top(t).c]
                 /\ EqualsOf(items'[Top(t).d], items'[Top(t).c])
                 /\ EqualsOf(items'[Top(t).c], items'[Top(t).d])
         /\ Made(t, "Clone")
              => \A u \in Threads :
                    /\ Mutates(u, first[t].d)
                          => items'[first[t].c] = items[first[t].c]
                    /\ Mutates(u, first[t].c)
                          => items'[first[t].d] = items[first[t].d]]_vars

\* A clone of a container that holds entries has been made, and a Set on
\* the clone has since made the two differ.
C14_Witness ==
    \E t \in DeriveThreads, u \in MutateThreads :
        /\ Made(t, "Clone") /\ first[t].d = "N"
        /\ Observed(u, "Set") /\ first[u].c = "N"
        /\ items["A"] # EmptyMap
        /\ items["N"] # items["A"]

TapThreads == 1..NTapThreads

TapFrames ==
    {Frame("Tap", "A", "A", 1, Absent)}
    \cup {Frame("Set", "A", "A", k, 1) : k \in Keys}

\* What the function of a Tap called with key k calls.
TapCalls(k) ==
    {Leaf(Frame("Set", "A", "A", k, 2))}
    \cup {Leaf(Frame("Delete", "A", "A", k, Absent))}
    \cup {Leaf(Frame("Size", "A", "A", k, Absent))}

NextTap ==
    \/ \E t \in TapThreads, f \in TapFrames : Call(t, f)
    \/ \E t \in TapThreads, k \in Keys :
          \E f \in TapCalls(k) :
              Depth(t) > 0 /\ Top(t).op = "Tap" /\ Top(t).k = k /\ Nested(t, f)
    \/ \E t \in Threads : TapCbReturn(t)
    \/ \E t \in Threads : SetLock(t)
    \/ \E t \in Threads : SetBody(t)
    \/ \E t \in Threads : DeleteLock(t)
    \/ \E t \in Threads : DeleteBody(t)
    \/ \E t \in Threads : ReadRLock(t)
    \/ \E t \in Threads : ReadBody(t)

SpecTap == Init /\ [][NextTap]_vars

\* Tap's function runs on goroutine t (and is not inside a call it made).
InTap(t) == Depth(t) > 0 /\ Top(t).op = "Tap" /\ Top(t).pc = "incb"

\* C19: while Tap's function runs, the goroutine holds no lock of the
\* container and waits for none; whatever the function calls on the
\* container (Set, Delete, Size), no state is a deadlock; and when Tap
\* returns it returns the receiver and leaves the map as the
\* function's calls left it.
C19_TapUnlocked ==
    [][/\ \A t \in Threads : InTap(t)' => HoldsNoLock(t)'
       /\ ~Deadlock'
       /\ \A t \in Threads :
             Returns(t, "Tap")
             => /\ ret'[t] = <<"Tap", Top(t).c>>
                /\ items' = items]_vars

\* A Tap whose function called Set has returned, and the container holds
\* what that Set stored.
C19_Witness ==
    \E t \in TapThreads :
        /\ Observed(t, "Tap")
        /\ lastw["A"] = [t |-> t, op |-> "Set", k |-> first[t].k, v |-> 2]
        /\ items["A"][first[t].k] = 2
        /\ ret[t] = <<"Tap", "A">>

(***************************************************************************)
(* First, FirstKey, Last, LastKey called with an amount n: RLock, take the *)
(* keys in the order the map yields them, and return nil (for an empty     *)
(* container; First also for n = 0), the result of the opposite method     *)
(* called with -n (for n < 0; the call is made with the shared lock held   *)
(* and takes it again), or a slice.  A frame's v is the amount.            *)
(***************************************************************************)
PosOps == {"First", "FirstKey", "Last", "LastKey"}

Opposite(op) ==
    CASE op = "First" -> "Last"
      [] op = "Last" -> "First"
      [] op = "FirstKey" -> "LastKey"
      [] op = "LastKey" -> "FirstKey"

\* An `any` that is nil, and one that holds the slice s.
Nil == <<"nil", <<>>>>
Slice(s) == <<"slice", s>>

ValuesAt(its, keys) == [i \in 1..Len(keys) |-> its[keys[i]]]
FirstN(keys, n) == SubSeq(keys, 1, n)
LastN(keys, n) == SubSeq(keys, Len(keys) - n + 1, Len(keys))

\* What the method returns for n >= 0, keys being keysUnlocked()'s result.
PosResult(op, its, keys, n) ==
    CASE op = "First" ->
            IF Len(keys) = 0 THEN Nil
            ELSE IF n = 0 THEN Nil
            ELSE IF n >= Len(keys) THEN Slice(ValuesAt(its, keys))
            ELSE Slice(ValuesAt(its, FirstN(keys, n)))
      [] op = "FirstKey" ->
            IF Len(keys) = 0 THEN Nil
            ELSE IF n >= Len(keys) THEN Slice(keys)
            ELSE Slice(FirstN(keys, n))
      [] op = "Last" ->
            IF Len(keys) = 0 THEN Nil
            ELSE IF n = 0 THEN Slice(<<>>)
            ELSE IF n >= Len(keys) THEN Slice(ValuesAt(its, keys))
            ELSE Slice(ValuesAt(its, LastN(keys, n)))
      [] op = "LastKey" ->
            IF Len(keys) = 0 THEN Nil
            ELSE IF n = 0 THEN Slice(<<>>)
            ELSE IF n >= Len(keys) THEN Slice(keys)
            ELSE Slice(LastN(keys, n))

\* Go's int, IntBits wide, and its unary minus, which wraps around: the
\* negation of the most negative int is that int itself.
MinInt == -(2 ^ (IntBits - 1))
MaxInt == 2 ^ (IntBits - 1) - 1
Neg(n) == IF n = MinInt THEN MinInt ELSE -n

\* The method hands the call over to the opposite one.
Delegates(its, n) == KeysOf(its) # {} /\ n < 0

\* The call on top of t's stack returns r: to the goroutine's code, or to
\* the method that made the call, which keeps it in res.
PosReturn(t, r) ==
    IF Depth(t) = 1
    THEN Return(t, <<Top(t).op, r>>)
    ELSE /\ stack' = [stack EXCEPT ![t] =
                         [SubSeq(@, 1, Len(@) - 1) EXCEPT ![Len(@) - 1].res = r]]
         /\ UNCHANGED ret

PosRLock(t) ==
    /\ Depth(t) > 0
    /\ Top(t).op \in PosOps
    /\ Top(t).pc = "rlock"
    /\ ~Blocked(t)
    /\ mu' = [mu EXCEPT ![Top(t).c] = RLock(@, t)]
    /\ Goto(t, [Top(t) EXCEPT !.pc = "body"])
    /\ UNCHANGED <<items, started, ret, gencount, genval, first, lastw>>

PosBody(t) ==
    /\ Depth(t) > 0
    /\ Top(t).op \in PosOps
    /\ Top(t).pc = "body"
    /\ ~Blocked(t)
    /\ IF Delegates(items[Top(t).c], Top(t).v)
       THEN /\ Depth(t) < MaxDepth
            /\ stack' = [stack EXCEPT ![t] =
                            Append([@ EXCEPT ![Len(@)].pc = "deleg"],
                                   Frame(Opposite(Top(t).op), Top(t).c,
                                         Top(t).c, Top(t).k, Neg(Top(t).v)))]
            /\ UNCHANGED <<mu, ret>>
       ELSE /\ mu' = [mu EXCEPT ![Top(t).c] = RUnlock(@, t)]
            /\ \E keys \in KeysUnlocked(items[Top(t).c]) :
                  PosReturn(t, PosResult(Top(t).op, items[Top(t).c], keys,
                                         Top(t).v))
    /\ UNCHANGED <<items, started, gencount, genval, first, lastw>>

\* The opposite method has returned; the method returns what it returned.
PosDelegReturn(t) ==
    /\ Depth(t) > 0
    /\ Top(t).op \in PosOps
    /\ Top(t).pc = "deleg"
    /\ ~Blocked(t)
    /\ mu' = [mu EXCEPT ![Top(t).c] = RUnlock(@, t)]
    /\ PosReturn(t, Top(t).res)
    /\ UNCHANGED <<items, started, gencount, genval, first, lastw>>

(***************************************************************************)
(* First, FirstKey, Last and LastKey on a container that holds any         *)
(* mapping.                                                                *)
(***************************************************************************)
PosThreads == 1..NPosThreads
Amounts == (-MaxAmount)..MaxAmount

PosFrames == {Frame(op, "A", "A", 1, n) : op \in PosOps, n \in Amounts}

NextPos ==
    \/ \E t \in PosThreads, f \in PosFrames : Call(t, f)
    \/ \E t \in Threads : PosRLock(t)
    \/ \E t \in Threads : PosBody(t)
    \/ \E t \in Threads : PosDelegReturn(t)

SpecPos == InitTraverse /\ [][NextPos]_vars

Abs(n) == IF n < 0 THEN -n ELSE n
Min(a, b) == IF a < b THEN a ELSE b

\* C20: on a container that holds entries, First(n), Last(n), FirstKey(n)
\* and LastKey(n) return a sequence, of length min(|n|, Size): empty for
\* n = 0, the whole contents for |n| >= Size.
C20_PositionalSequence ==
    \A t \in PosThreads :
        (/\ started[t] /\ Idle(t) /\ first[t].op \in PosOps
         /\ items["A"] # EmptyMap)
        => /\ ret[t][2][1] = "slice"
           /\ Len(ret[t][2][2]) = Min(Abs(first[t].v), SizeOf(items["A"]))

(***************************************************************************)
(* At, KeyAt: RLock, take the keys in the order the map yields them, add   *)
(* len(keys) to a negative index, and return the zero value and false when *)
(* the index is outside 0..len(keys)-1, the value (key) at the index and   *)
(* true otherwise.  A frame's v is the index.                              *)
(***************************************************************************)
IndexOps == {"At", "KeyAt"}

\* `var zero V`, `var zero K`.
Zero == 0

\* `if index < 0 { index += len(keys) }`
IndexFromStart(i, len) == i
IndexFromEnd(i, len) == IF i < 0 THEN i + len ELSE i

\* <<value or key, found>>; Go's keys[j] is keys[j + 1] here.
IndexResult(op, its, keys, i) ==
    LET j == IndexFromEnd(i, Len(keys))
    IN  IF j < 0 \/ j >= Len(keys) THEN <<Zero, FALSE>>
        ELSE IF op = "At" THEN <<its[keys[j + 1]], TRUE>>
        ELSE <<keys[j + 1], TRUE>>

IndexRLock(t) ==
    /\ Depth(t) > 0
    /\ Top(t).op \in IndexOps
    /\ Top(t).pc = "rlock"
    /\ ~Blocked(t)
    /\ mu' = [mu EXCEPT ![Top(t).c] = RLock(@, t)]
    /\ Goto(t, [Top(t) EXCEPT !.pc = "body"])
    /\ UNCHANGED <<items, started, ret, gencount, genval, first, lastw>>

\* The call returns <<op, <<value or key, found>>, keys>>, keys being what
\* keysUnlocked() gave this call.
IndexBody(t) ==
    /\ Depth(t) > 0
    /\ Top(t).op \in IndexOps
    /\ Top(t).pc = "body"
    /\ ~Blocked(t)
    /\ mu' = [mu EXCEPT ![Top(t).c] = RUnlock(@, t)]
    /\ \E keys \in KeysUnlocked(items[Top(t).c]) :
          Return(t, <<Top(t).op,
                      IndexResult(Top(t).op, items[Top(t).c], keys, Top(t).v),
                      keys>>)
    /\ UNCHANGED <<items, started, gencount, genval, first, lastw>>

(***************************************************************************)
(* At and KeyAt on a container that holds any mapping, with every index    *)
(* from -MaxAmount to MaxAmount.                                           *)
(***************************************************************************)
IndexThreads == 1..NIndexThreads

IndexFrames == {Frame(op, "A", "A", 1, i) : op \in IndexOps, i \in Amounts}

NextIndex ==
    \/ \E t \in IndexThreads, f \in IndexFrames : Call(t, f)
    \/ \E t \in Threads : IndexRLock(t)
    \/ \E t \in Threads : IndexBody(t)

SpecIndex == InitTraverse /\ [][NextIndex]_vars

\* C21: At(i) and KeyAt(i) report found exactly when -Size <= i < Size; then
\* they return the entry at position i of the keys the call took (for i < 0
\* at position Size + i, so -1 is the last one), a value resp. key the
\* container holds; otherwise, on an empty container always, they return the
\* zero value and false.  The call leaves the container unchanged.
C21_AtKeyAt ==
    [][\A t \in IndexThreads, op \in IndexOps :
         Returns(t, op) =>
            LET its == items[Top(t).c]
                i == Top(t).v
                r == ret'[t][2]
                keys == ret'[t][3]
                pos == IF i < 0 THEN SizeOf(its) + i + 1 ELSE i + 1
            IN  /\ r[2] = (-SizeOf(its) <= i /\ i < SizeOf(its))
                /\ ~r[2] => r[1] = 0
                /\ r[2] => r[1] = IF op = "At" THEN its[keys[pos]]
                                  ELSE keys[pos]
                /\ r[2] /\ i = -1 => r[1] = IF op = "At" THEN its[keys[Len(keys)]]
                                            ELSE keys[Len(keys)]
                /\ r[2] /\ op = "KeyAt" => its[r[1]] # Absent
                /\ items' = items]_vars

\* At(-1) has found the last value of a container that holds two entries,
\* and (on another run) KeyAt has found nothing at an index past the end.
C21_Witness ==
    \E t \in IndexThreads :
        /\ SizeOf(items["A"]) = 2
        /\ \/ /\ Observed(t, "At")
              /\ first[t].v = -1
              /\ ret[t][2][2]
           \/ /\ Observed(t, "KeyAt")
              /\ first[t].v = 2
              /\ ~ret[t][2][2]

(***************************************************************************)
(* Random, RandomKey called with an amount n: RLock, take the keys in the  *)
(* order the map yields them, return nil for an empty container and an     *)
(* empty slice for n <= 0; otherwise lower n to len(keys), draw a          *)
(* permutation of the indexes with rand.Perm and return the values (keys)  *)
(* at its first n indexes.  A frame's v is the amount.                     *)
(***************************************************************************)
RandomOps == {"Random", "RandomKey"}

\* rand.Perm(n): the permutations of the n indexes (0..n-1 in Go, 1..n here)
\* as sequences.
PermRepeating(n) == [1..n -> 1..n]
Perm(n) == Orders(1..n)

\* `if n > len(keys) { n = len(keys) }`
Clamp(n, len) == IF n > len THEN len ELSE n

\* The keys the method picks: keys[perm[i]] for i < n.
Picked(keys, perm, n) == [i \in 1..n |-> keys[perm[i]]]

\* The <<result, picked keys>> the method can return, keys being what
\* keysUnlocked() gave it: rand.Perm is called only after the checks for an
\* empty container and for n <= 0.
RandomResults(op, its, keys, n) ==
    IF Len(keys) = 0 THEN {<<Nil, <<>>>>}
    ELSE IF n <= 0 THEN {<<Slice(<<>>), <<>>>>}
    ELSE {LET p == Picked(keys, perm, Clamp(n, Len(keys)))
          IN  IF op = "Random" THEN <<Slice(ValuesAt(its, p)), p>>
              ELSE <<Slice(p), p>> : perm \in Perm(Len(keys))}

RandomRLock(t) ==
    /\ Depth(t) > 0
    /\ Top(t).op \in RandomOps
    /\ Top(t).pc = "rlock"
    /\ ~Blocked(t)
    /\ mu' = [mu EXCEPT ![Top(t).c] = RLock(@, t)]
    /\ Goto(t, [Top(t) EXCEPT !.pc = "body"])
    /\ UNCHANGED <<items, started, ret, gencount, genval, first, lastw>>

\* The call returns <<op, result, picked>>, picked being the keys of the
\* entries it took.
RandomBody(t) ==
    /\ Depth(t) > 0
    /\ Top(t).op \in RandomOps
    /\ Top(t).pc = "body"
    /\ ~Blocked(t)
    /\ mu' = [mu EXCEPT ![Top(t).c] = RUnlock(@, t)]
    /\ \E r \in UNION {RandomResults(Top(t).op, items[Top(t).c], keys, Top(t).v) :
                        keys \in KeysUnlocked(items[Top(t).c])} :
          Return(t, <<Top(t).op, r[1], r[2]>>)
    /\ UNCHANGED <<items, started, gencount, genval, first, lastw>>

(***************************************************************************)
(* Random and RandomKey on a container that holds any mapping, with every  *)
(* amount from -1 to MaxAmount.                                            *)
(***************************************************************************)
RandomThreads == 1..NRandomThreads

RandomAmounts == (-1)..MaxAmount

RandomFrames ==
    {Frame(op, "A", "A", 1, n) : op \in RandomOps, n \in RandomAmounts}

NextRandom ==
    \/ \E t \in RandomThreads, f \in RandomFrames : Call(t, f)
    \/ \E t \in Threads : RandomRLock(t)
    \/ \E t \in Threads : RandomBody(t)

SpecRandom == InitTraverse /\ [][NextRandom]_vars

\* The number of elements the claim gives the result of Random(n).
Wanted(n, size) == IF n <= 0 THEN 0 ELSE Min(n, size)

\* The result r is a slice of the wanted length whose elements are the
\* values (for RandomKey the keys) of the entries picked, which are entries
\* of the mapping its, no two of them the same.
Sample(op, its, n, r, picked) ==
    /\ r[1] = "slice"
    /\ Len(r[2]) = Wanted(n, SizeOf(its))
    /\ Len(picked) = Len(r[2])
    /\ \A i \in 1..Len(picked) :
          /\ its[picked[i]] # Absent
          /\ r[2][i] = IF op = "Random" THEN its[picked[i]] ELSE picked[i]
          /\ \A j \in 1..Len(picked) : picked[i] = picked[j] => i = j

\* C22 as stated: Random(n) and RandomKey(n) return, whatever the container
\* holds, a sequence of min(n, Size) elements (none for n <= 0) taken from
\* pairwise distinct entries of the container.
C22_RandomSequence ==
    [][\A t \in RandomThreads, op \in RandomOps :
         Returns(t, op) =>
            Sample(op, items[Top(t).c], Top(t).v, ret'[t][2], ret'[t][3])]_vars

\* C22 amended: on a container that holds entries, Random(n) and
\* RandomKey(n) return a sequence of min(n, Size) elements (none for
\* n <= 0) taken from pairwise distinct entries of the container; on an
\* empty container they return nil, whatever n is.
C22_RandomDistinct ==
    [][\A t \in RandomThreads, op \in RandomOps :
         Returns(t, op) =>
            IF items[Top(t).c] = EmptyMap
            THEN ret'[t][2] = Nil
            ELSE Sample(op, items[Top(t).c], Top(t).v, ret'[t][2],
                        ret'[t][3])]_vars

\* Random(2) has returned two values of a container that holds two entries,
\* or Random(3) has, the amount being lowered to the size.
C22_Witness ==
    \E t \in RandomThreads :
        /\ Observed(t, "Random")
        /\ first[t].v >= 2
        /\ SizeOf(items["A"]) = 2
        /\ Len(ret[t][2][2]) = 2

(***************************************************************************)
(* ToSorted, ToReversed: `c.Clone().Sort(compare)`, `c.Clone().Reverse()`. *)
(* Clone takes c's shared lock, copies the entries into the container d    *)
(* that New() makes and releases the lock; Sort (Reverse) then takes d's   *)
(* exclusive lock, rebuilds d's map and returns d.                         *)
(***************************************************************************)
ToOps == {"ToSorted", "ToReversed"}

Applied(op) == IF op = "ToSorted" THEN "Sort" ELSE "Reverse"

ToCloneRLock(t) ==
    /\ Depth(t) > 0
    /\ Top(t).op \in ToOps
    /\ Top(t).pc = "rlock"
    /\ ~Blocked(t)
    /\ mu' = [mu EXCEPT ![Top(t).c] = RLock(@, t)]
    /\ Goto(t, [Top(t) EXCEPT !.pc = "cloned"])
    /\ UNCHANGED <<items, started, ret, gencount, genval, first, lastw>>

ToCloneBody(t) ==
    /\ Depth(t) > 0
    /\ Top(t).op \in ToOps
    /\ Top(t).pc = "cloned"
    /\ ~Blocked(t)
    /\ mu' = [mu EXCEPT ![Top(t).c] = RUnlock(@, t)]
    /\ items' = NewWith(Top(t).d, CloneOf(items[Top(t).c]))
    /\ Goto(t, [Top(t) EXCEPT !.pc = "lockd"])
    /\ UNCHANGED <<started, ret, gencount, genval, first, lastw>>

ToLock(t) ==
    /\ Depth(t) > 0
    /\ Top(t).op \in ToOps
    /\ Top(t).pc = "lockd"
    /\ ~Blocked(t)
    /\ CanLock(mu[Top(t).d])
    /\ mu' = [mu EXCEPT ![Top(t).d] = Lock(@, t)]
    /\ lastw' = [lastw EXCEPT ![Top(t).d] = Writer(t, Top(t))]
    /\ Goto(t, [Top(t) EXCEPT !.pc = "bodyd"])
    /\ UNCHANGED <<items, started, ret, gencount, genval, first>>

ToBody(t) ==
    /\ Depth(t) > 0
    /\ Top(t).op \in ToOps
    /\ Top(t).pc = "bodyd"
    /\ ~Blocked(t)
    /\ \E keys \in KeysUnlocked(items[Top(t).d]) :
          items' = [items EXCEPT ![Top(t).d] =
                       Rebuild(Applied(Top(t).op), @, keys, Top(t).v)]
    /\ mu' = [mu EXCEPT ![Top(t).d] = Unlock(@, t)]
    /\ Return(t, <<Top(t).op, Top(t).d>>)
    /\ UNCHANGED <<started, gencount, genval, first, lastw>>

(***************************************************************************)
(* A test's two statements: Sort, Reverse, ToSorted or ToReversed on a     *)
(* container that holds any mapping, and, once that call has returned,     *)
(* Keys on the container it returned.  Nothing else touches the            *)
(* containers.                                                             *)
(***************************************************************************)
SortThreads == {1}
KeysThreads == {2}

Comparators == {ByKey, ByValue}

SortFrames ==
    {Frame("Sort", "A", "A", 1, cmp) : cmp \in Comparators}
    \cup {Frame("Reverse", "A", "A", 1, ByKey)}
    \cup {Making(Frame("ToSorted", "A", "A", 1, cmp), "N") :
             cmp \in Comparators}
    \cup {Making(Frame("ToReversed", "A", "A", 1, ByKey), "N")}

\* Keys on the container that goroutine t's call returned.
KeysOfResult(t) == Frame("Keys", ret[t][2], ret[t][2], 1, Absent)

NextSort ==
    \/ \E t \in SortThreads, f \in SortFrames : Call(t, f)
    \/ \E t \in SortThreads, u \in KeysThreads :
          started[t] /\ Idle(t) /\ Call(u, KeysOfResult(t))
    \/ \E t \in Threads : RebuildLock(t)
    \/ \E t \in Threads : RebuildBody(t)
    \/ \E t \in Threads : ToCloneRLock(t)
    \/ \E t \in Threads : ToCloneBody(t)
    \/ \E t \in Threads : ToLock(t)
    \/ \E t \in Threads : ToBody(t)
    \/ \E t \in Threads : QueryRLock(t)
    \/ \E t \in Threads : QueryBody(t)

SpecSort == InitTraverse /\ [][NextSort]_vars

\* C23: Keys, called after Sort(cmp) or ToSorted(cmp) has returned, on the
\* container that call returned and with no mutation in between, returns
\* the keys in the order induced by cmp: no key stands before one that cmp
\* puts below it (for the comparator on keys: ascending keys).
C23_KeysSortedAfterSort ==
    \A t \in SortThreads, u \in KeysThreads :
        (Observed(u, "Keys") /\ first[t].op \in {"Sort", "ToSorted"})
        => LET r == ret[u][2]
           IN  \A i \in 1..Len(r), j \in 1..Len(r) :
                  i < j => ~Less(first[t].v, items[first[u].c], r[j], r[i])

\* C24: Sort and Reverse return the receiver and leave every key with the
\* value it had (no key added, none removed); no step of ToSorted or
\* ToReversed changes the receiver's entries, and they return another
\* container, which holds the receiver's entries.
C24_OrderOnly ==
    [][\A t \in SortThreads :
         /\ \A op \in {"Sort", "Reverse"} :
               Returns(t, op)
               => /\ ret'[t] = <<op, Top(t).c>>
                  /\ \A k \in Keys : items'[Top(t).c][k] = items[Top(t).c][k]
         /\ (Depth(t) > 0 /\ Top(t).op \in ToOps)
               => items'[Top(t).c] = items[Top(t).c]
         /\ \A op \in ToOps :
               Returns(t, op)
               => /\ ret'[t][2] \in Cols \ {Top(t).c}
                  /\ \A k \in Keys :
                        items'[ret'[t][2]][k] = items[Top(t).c][k]]_vars

\* Sort has returned on a container that holds two entries, or ToReversed
\* has returned a second container with the two entries of the first.
C24_Witness ==
    \E t \in SortThreads :
        /\ SizeOf(items["A"]) = 2
        /\ \/ Observed(t, "Sort") /\ ret[t] = <<"Sort", "A">>
           \/ Observed(t, "ToReversed") /\ items["N"] = items["A"]

(***************************************************************************)
(* A test's two statements on two containers A and B that hold any         *)
(* mappings: a binary method of A with B, and, once it has returned, a     *)
(* second method whose result the test compares with the first's.  Nothing *)
(* mutates A or B.                                                         *)
(***************************************************************************)
InitAlgebra ==
    InitWith({[c \in Cols |-> IF c = "A" THEN a
                              ELSE IF c = "B" THEN b ELSE EmptyMap] :
                 a \in Maps, b \in Maps})

FirstThreads == {1}
SecondThreads == {2}

FirstFrames ==
    {Frame(op, "A", "B", 1, Absent) : op \in BinOps}
    \cup {Frame("Equals", "A", "A", 1, Absent)}

\* The call the test makes after the call f.
SecondFrame(f) ==
    CASE f.op = "Union" -> Frame("Intersection", f.c, f.o, 1, Absent)
      [] f.op = "Intersection" -> Frame("Difference", f.c, f.o, 1, Absent)
      [] f.op = "Difference" -> Frame("Intersection", f.c, f.o, 1, Absent)
      [] f.op = "SymmetricDifference" ->
            Frame("SymmetricDifference", f.o, f.c, 1, Absent)
      [] f.op = "Equals" -> Frame("Equals", f.o, f.c, 1, Absent)

NextAlgebra ==
    \/ \E t \in FirstThreads, f \in FirstFrames : Call(t, f)
    \/ \E t \in FirstThreads, u \in SecondThreads :
          started[t] /\ Idle(t) /\ Call(u, SecondFrame(first[t]))
    \/ \E t \in Threads : BinRLock(t)
    \/ \E t \in Threads : BinRLockOther(t)
    \/ \E t \in Threads : UnionCloneRLock(t)
    \/ \E t \in Threads : UnionCloneBody(t)
    \/ \E t \in Threads : BinBody(t)

SpecAlgebra == InitAlgebra /\ [][NextAlgebra]_vars

\* Goroutine t's call of op on c with o has returned.
Done(t, op, c, o) ==
    Observed(t, op) /\ first[t].c = c /\ first[t].o = o

\* C25: what Union(A, B) returns holds exactly the keys that A or B holds; a
\* key of A has A's value, also when B holds the key with another value, and
\* a key of B alone has B's value.
C25_UnionEntries ==
    [][\A t \in Threads :
         Returns(t, "Union") =>
            LET a == items[Top(t).c]
                b == items[Top(t).o]
                r == ret'[t][2]
            IN  \A k \in Keys :
                   /\ (r[k] # Absent) = (a[k] # Absent \/ b[k] # Absent)
                   /\ a[k] # Absent => r[k] = a[k]
                   /\ (a[k] = Absent /\ b[k] # Absent) => r[k] = b[k]]_vars

\* Union has returned A's value for a key that B holds with another value.
C25_Witness ==
    \E t \in FirstThreads, k \in Keys :
        /\ Done(t, "Union", "A", "B")
        /\ items["A"][k] # Absent
        /\ items["B"][k] # Absent
        /\ items["A"][k] # items["B"][k]
        /\ ret[t][2][k] = items["A"][k]

\* C26: what Intersection(A, B) and Difference(A, B) return splits A: an
\* entry of A is, with A's value, in the first when B holds its key and in
\* the second when B does not, and in no case in both; a key A does not
\* hold is in neither, and the second shares no key with B.
C26_IntersectionDifferenceSplit ==
    \A t \in Threads, u \in Threads :
        (\/ Done(t, "Intersection", "A", "B") /\ Done(u, "Difference", "A", "B")
         \/ Done(u, "Intersection", "A", "B") /\ Done(t, "Difference", "A", "B"))
        => LET a == items["A"]
               b == items["B"]
               in == IF first[t].op = "Intersection" THEN ret[t][2]
                     ELSE ret[u][2]
               df == IF first[t].op = "Difference" THEN ret[t][2]
                     ELSE ret[u][2]
           IN  \A k \in Keys :
                  /\ a[k] # Absent /\ b[k] # Absent
                        => in[k] = a[k] /\ df[k] = Absent
                  /\ a[k] # Absent /\ b[k] = Absent
                        => in[k] = Absent /\ df[k] = a[k]
                  /\ a[k] = Absent => in[k] = Absent /\ df[k] = Absent
                  /\ df[k] # Absent => b[k] = Absent

\* Both have returned for an A with one key that B holds and one that B
\* does not hold.
C26_Witness ==
    \E t \in FirstThreads, u \in SecondThreads :
        /\ Done(t, "Intersection", "A", "B")
        /\ Done(u, "Difference", "A", "B")
        /\ SizeOf(ret[t][2]) = 1
        /\ SizeOf(ret[u][2]) = 1

\* C27: what SymmetricDifference(A, B) returns holds exactly the keys that
\* one of A and B holds and the other does not, each with the value of the
\* side that holds it; SymmetricDifference(B, A) returns the same keys.
C27_SymmetricDifference ==
    \A t \in Threads, u \in Threads :
        (/\ Done(t, "SymmetricDifference", "A", "B")
         /\ Done(u, "SymmetricDifference", "B", "A"))
        => LET a == items["A"]
               b == items["B"]
               r == ret[t][2]
               s == ret[u][2]
           IN  /\ \A k \in Keys :
                     /\ (r[k] # Absent) = ((a[k] # Absent) # (b[k] # Absent))
                     /\ (a[k] # Absent /\ b[k] = Absent) => r[k] = a[k]
                     /\ (b[k] # Absent /\ a[k] = Absent) => r[k] = b[k]
                     /\ (a[k] # Absent /\ b[k] # Absent) => r[k] = Absent
               /\ {k \in Keys : r[k] # Absent} = {k \in Keys : s[k] # Absent}

\* Both have returned, the result holding a key of A alone and a key of B
\* alone.
C27_Witness ==
    \E t \in FirstThreads, u \in SecondThreads :
        /\ Done(t, "SymmetricDifference", "A", "B")
        /\ Done(u, "SymmetricDifference", "B", "A")
        /\ SizeOf(ret[t][2]) = 2
        /\ SizeOf(items["A"]) = 1
        /\ SizeOf(items["B"]) = 1

\* C28: the sizes of what Union(A, B) and Intersection(A, B) return add up
\* to the sizes of A and B.
C28_InclusionExclusion ==
    \A t \in Threads, u \in Threads :
        (Done(t, "Union", "A", "B") /\ Done(u, "Intersection", "A", "B"))
        => Cardinality({k \in Keys : ret[t][2][k] # Absent})
             + Cardinality({k \in Keys : ret[u][2][k] # Absent})
           = Cardinality({k \in Keys : items["A"][k] # Absent})
             + Cardinality({k \in Keys : items["B"][k] # Absent})

\* Both have returned for containers that share one key and hold three
\* entries together.
C28_Witness ==
    \E t \in FirstThreads, u \in SecondThreads :
        /\ Done(t, "Union", "A", "B")
        /\ Done(u, "Intersection", "A", "B")
        /\ SizeOf(ret[u][2]) = 1
        /\ SizeOf(items["A"]) + SizeOf(items["B"]) = 3

\* C30: Equals returns true exactly when the two containers hold the same
\* keys with the same values (the same size, and every key of the first in
\* the second with an equal value); A.Equals(A) is true, A.Equals(B) and
\* B.Equals(A) agree, and the call changes neither container.
C30_Equals ==
    [][\A t \in Threads :
         Returns(t, "Equals") =>
            LET a == items[Top(t).c]
                b == items[Top(t).o]
            IN  /\ ret'[t][2] = (\A k \in Keys : a[k] = b[k])
                /\ ret'[t][2] =
                     (/\ Cardinality({k \in Keys : a[k] # Absent})
                           = Cardinality({k \in Keys : b[k] # Absent})
                      /\ \A k \in Keys : a[k] # Absent => b[k] = a[k])
                /\ Top(t).c = Top(t).o => ret'[t][2]
                /\ \A u \in Threads :
                      Done(u, "Equals", Top(t).o, Top(t).c)
                      => ret'[t][2] = ret[u][2]
                /\ items' = items]_vars

\* A.Equals(B) and B.Equals(A) have returned false for an A whose entries
\* are all in B, B holding one more.
C30_Witness ==
    \E t \in FirstThreads, u \in SecondThreads :
        /\ Done(t, "Equals", "A", "B")
        /\ Done(u, "Equals", "B", "A")
        /\ ~ret[t][2]
        /\ ~ret[u][2]
        /\ SizeOf(items["A"]) < SizeOf(items["B"])
        /\ \A k \in Keys :
              items["A"][k] # Absent => items["B"][k] = items["A"][k]

(***************************************************************************)
(* Concat: `result := c.Clone()` (RLock c, copy, RUnlock c), then for each *)
(* argument in turn RLock it, store every entry of it in result, RUnlock   *)
(* it; return result.  A frame's args are the arguments, cnt the number of *)
(* them done, res the entries of result, d the container Clone's New()     *)
(* made.                                                                   *)
(***************************************************************************)
\* `for k, v := range coll.items { result.items[k] = v }`
StoreMissing(res, its) ==
    [k \in Keys |-> IF res[k] # Absent THEN res[k] ELSE its[k]]
StoreAll(res, its) ==
    [k \in Keys |-> IF its[k] # Absent THEN its[k] ELSE res[k]]

ConcatCloneRLock(t) ==
    /\ Running(t, "Concat", "rlock")
    /\ mu' = [mu EXCEPT ![Top(t).c] = RLock(@, t)]
    /\ Goto(t, [Top(t) EXCEPT !.pc = "cloned"])
    /\ UNCHANGED <<items, started, ret, gencount, genval, first, lastw>>

ConcatCloneBody(t) ==
    /\ Running(t, "Concat", "cloned")
    /\ mu' = [mu EXCEPT ![Top(t).c] = RUnlock(@, t)]
    /\ Goto(t, [Top(t) EXCEPT !.pc = "loop", !.res = CloneOf(items[Top(t).c])])
    /\ UNCHANGED <<items, started, ret, gencount, genval, first, lastw>>

\* The head of the loop: coll.mu.RLock() for the next argument, or, after
\* the last one, `return result`.
ConcatNext(t) ==
    /\ Running(t, "Concat", "loop")
    /\ IF Top(t).cnt < Len(Top(t).args)
       THEN /\ mu' = [mu EXCEPT ![Top(t).args[Top(t).cnt + 1]] = RLock(@, t)]
            /\ Goto(t, [Top(t) EXCEPT !.pc = "copy"])
            /\ UNCHANGED <<items, ret>>
       ELSE /\ items' = NewWith(Top(t).d, Top(t).res)
            /\ Return(t, <<"Concat", Top(t).res>>)
            /\ UNCHANGED mu
    /\ UNCHANGED <<started, gencount, genval, first, lastw>>

ConcatCopy(t) ==
    /\ Running(t, "Concat", "copy")
    /\ mu' = [mu EXCEPT ![Top(t).args[Top(t).cnt + 1]] = RUnlock(@, t)]
    /\ Goto(t, [Top(t) EXCEPT
                  !.pc = "loop",
                  !.cnt = @ + 1,
                  !.res = StoreAll(@, items[Top(t).args[Top(t).cnt + 1]])])
    /\ UNCHANGED <<items, started, ret, gencount, genval, first, lastw>>

(***************************************************************************)
(* Concat of A with up to MaxConcat arguments, each of them A or B, the    *)
(* two holding any mappings.                                               *)
(***************************************************************************)
ConcatThreads == {1}

ConcatArgs == UNION {[1..n -> {"A", "B"}] : n \in 0..MaxConcat}

ConcatFrames ==
    {[Making(Frame("Concat", "A", "A", 1, Absent), "N") EXCEPT !.args = a] :
        a \in ConcatArgs}

NextConcat ==
    \/ \E t \in ConcatThreads, f \in ConcatFrames : Call(t, f)
    \/ \E t \in Threads : ConcatCloneRLock(t)
    \/ \E t \in Threads : ConcatCloneBody(t)
    \/ \E t \in Threads : ConcatNext(t)
    \/ \E t \in Threads : ConcatCopy(t)

SpecConcat == InitAlgebra /\ [][NextConcat]_vars

\* The largest element of a non-empty set of numbers.
Largest(S) == CHOOSE x \in S : \A y \in S : y <= x

\* C29: Concat(A, C1, ..., Cn) returns a container that is none of A, C1,
\* ..., Cn; it holds the keys that A or some Ci holds, each with the value
\* of the last container in the order A, C1, ..., Cn that holds the key;
\* with no argument it holds A's entries.  A and the Ci are left as they
\* were.
C29_ConcatLastWins ==
    [][\A t \in ConcatThreads :
         Returns(t, "Concat") =>
            LET chain == <<Top(t).c>> \o Top(t).args
                r == ret'[t][2]
                At(k) == {i \in 1..Len(chain) : items[chain[i]][k] # Absent}
            IN  /\ \A k \in Keys :
                      r[k] = IF At(k) = {} THEN Absent
                             ELSE items[chain[Largest(At(k))]][k]
                /\ Top(t).args = <<>> => r = items[Top(t).c]
                /\ Top(t).d \in Cols
                /\ \A i \in 1..Len(chain) : chain[i] # Top(t).d
                /\ items'[Top(t).d] = r
                /\ \A i \in 1..Len(chain) :
                      items'[chain[i]] = items[chain[i]]]_vars

\* Concat(A, B) has returned B's value for a key that A holds with another
\* value.
C29_Witness ==
    \E t \in ConcatThreads, k \in Keys :
        /\ Observed(t, "Concat")
        /\ first[t].args = <<"B">>
        /\ items["A"][k] # Absent
        /\ items["B"][k] # Absent
        /\ items["A"][k] # items["B"][k]
        /\ ret[t][2][k] = items["B"][k]
        /\ items["N"] = ret[t][2]

(***************************************************************************)
(* MergeCollection(c, other, whenInSelf, whenInOther, whenInBoth): both    *)
(* shared locks, then the keys of c and of other are gathered in a set and *)
(* ranged over; for each key the function its membership selects is called *)
(* and, when it returns Keep = true, its Value is stored in the result.    *)
(* What a function returns is an input.  A frame's args are the calls made *)
(* so far.                                                                 *)
(***************************************************************************)
\* The `switch` of the loop.
WhichSelfFirst(a, b, k) ==
    IF a[k] # Absent THEN "whenInSelf" ELSE "whenInOther"
Which(a, b, k) ==
    IF a[k] # Absent /\ b[k] # Absent THEN "whenInBoth"
    ELSE IF a[k] # Absent THEN "whenInSelf"
    ELSE "whenInOther"

\* The record of a call: the function, its arguments, what it returned.
MergeCalled(fn, a, b, k, keep, val) ==
    [fn |-> fn, k |-> k,
     value |-> IF fn = "whenInOther" THEN Absent ELSE a[k],
     valueOther |-> IF fn = "whenInSelf" THEN Absent ELSE b[k],
     keep |-> keep, val |-> val]

MergeRange(t) ==
    /\ Running(t, "Merge", "range")
    /\ Goto(t, [Top(t) EXCEPT
                  !.pc = "iter",
                  !.rem = KeysOf(items[Top(t).c]) \cup KeysOf(items[Top(t).o])])
    /\ UNCHANGED <<items, mu, started, ret, gencount, genval, first, lastw>>

MergeIter(t) ==
    /\ Running(t, "Merge", "iter")
    /\ IF Top(t).rem = {}
       THEN /\ mu' = LET m1 == [mu EXCEPT ![Top(t).o] = RUnlock(@, t)]
                     IN  [m1 EXCEPT ![Top(t).c] = RUnlock(@, t)]
            /\ items' = NewWith(Top(t).d, Top(t).res)
            /\ Return(t, <<"Merge", Top(t).res, Top(t).args>>)
       ELSE /\ \E k \in Top(t).rem :
                 Goto(t, [Top(t) EXCEPT !.pc = "incb", !.k = k,
                                        !.rem = @ \ {k}])
            /\ UNCHANGED <<items, mu, ret>>
    /\ UNCHANGED <<started, gencount, genval, first, lastw>>

\* The function called for key Top(t).k returns Keep{keep, val}.
MergeCbReturn(t, keep, val) ==
    /\ Running(t, "Merge", "incb")
    /\ LET a == items[Top(t).c]
           b == items[Top(t).o]
           k == Top(t).k
       IN  Goto(t, [Top(t) EXCEPT
                      !.pc = "iter",
                      !.res = IF keep THEN [@ EXCEPT ![k] = val] ELSE @,
                      !.args = Append(@, MergeCalled(Which(a, b, k), a, b, k,
                                                     keep, val))])
    /\ UNCHANGED <<items, mu, started, ret, gencount, genval, first, lastw>>

(***************************************************************************)
(* MergeCollection(A, B, ...) for an A that holds any mapping and a B that *)
(* holds every key but the first.                                          *)
(***************************************************************************)
MergeThreads == {1}

MergeFrames == {Making(Frame("Merge", "A", "B", 1, Absent), "N")}

NextMerge ==
    \/ \E t \in MergeThreads, f \in MergeFrames : Call(t, f)
    \/ \E t \in Threads : BinRLock(t)
    \/ \E t \in Threads : BinRLockOther(t)
    \/ \E t \in Threads : MergeRange(t)
    \/ \E t \in Threads : MergeIter(t)
    \/ \E t \in Threads, v \in Vals : MergeCbReturn(t, TRUE, v)
    \/ \E t \in Threads : MergeCbReturn(t, FALSE, Absent)

SpecMerge == InitDerive /\ [][NextMerge]_vars

\* C31: when Merge(A, B, whenInA, whenInB, whenInBoth) returns it has made,
\* for every key of A or B, one call: of whenInBoth with both values when
\* both hold the key, of whenInA with A's value when only A does, of whenInB
\* with B's value when only B does; it has made no call for another key.
\* The result holds a key exactly when the call for it returned keep = true,
\* with the value that call returned.
C31_MergeCalls ==
    [][\A t \in MergeThreads :
         Returns(t, "Merge") =>
            LET a == items[Top(t).c]
                b == items[Top(t).o]
                calls == Top(t).args
                r == ret'[t][2]
                For(k) == {i \in 1..Len(calls) : calls[i].k = k}
            IN  \A k \in Keys :
                   IF a[k] = Absent /\ b[k] = Absent
                   THEN For(k) = {} /\ r[k] = Absent
                   ELSE /\ Cardinality(For(k)) = 1
                        /\ \A i \in For(k) :
                              /\ calls[i].fn =
                                   (IF a[k] = Absent THEN "whenInOther"
                                    ELSE IF b[k] = Absent THEN "whenInSelf"
                                    ELSE "whenInBoth")
                              /\ calls[i].value # Absent
                                    => calls[i].value = a[k]
                              /\ calls[i].valueOther # Absent
                                    => calls[i].valueOther = b[k]
                              /\ calls[i].fn = "whenInBoth"
                                    => /\ calls[i].value = a[k]
                                       /\ calls[i].valueOther = b[k]
                              /\ (r[k] # Absent) = calls[i].keep
                              /\ calls[i].keep => r[k] = calls[i].val]_vars

\* Merge has returned after a call of whenInSelf that kept its key and a
\* call of whenInBoth that dropped its key.
C31_Witness ==
    \E t \in MergeThreads :
        /\ Observed(t, "Merge")
        /\ \E i, j \in 1..Len(ret[t][3]) :
              /\ ret[t][3][i].fn = "whenInSelf"
              /\ ret[t][3][i].keep
              /\ ret[t][2][ret[t][3][i].k] # Absent
              /\ ret[t][3][j].fn = "whenInBoth"
              /\ ~ret[t][3][j].keep
              /\ ret[t][2][ret[t][3][j].k] = Absent

(***************************************************************************)
(* CombineEntries and GroupBy: functions of a slice and a function, which  *)
(* fill a new container in one pass over the slice and take no lock.  A    *)
(* frame's args are the slice, its v the function.                         *)
(***************************************************************************)
PureOps == {"CombineEntries", "GroupBy"}

\* The combine functions: the sum of the test, and one that tells its
\* first argument from its second.
Combine(f, firstValue, secondValue, key) ==
    IF f = 0 THEN firstValue + secondValue
    ELSE 10 * firstValue + secondValue

\* The body of CombineEntries' loop for the entry <<k, v>>; acc holds coll's
\* entries and the calls of combine made so far.
CombineStepSwapped(acc, entry, f) ==
    LET k == entry[1]
        v == entry[2]
        old == acc.coll[k]
    IN  IF old # Absent
        THEN [coll |-> [acc.coll EXCEPT ![k] = Combine(f, v, old, k)],
              calls |-> Append(acc.calls, <<v, old, k>>)]
        ELSE [acc EXCEPT !.coll[k] = v]
CombineStep(acc, entry, f) ==
    LET k == entry[1]
        v == entry[2]
        old == acc.coll[k]
    IN  IF old # Absent
        THEN [coll |-> [acc.coll EXCEPT ![k] = Combine(f, old, v, k)],
              calls |-> Append(acc.calls, <<old, v, k>>)]
        ELSE [acc EXCEPT !.coll[k] = v]

RECURSIVE CombineEntriesOf(_, _, _)
\* coll after the first n entries.
CombineEntriesOf(entries, n, f) ==
    IF n = 0 THEN [coll |-> EmptyMap, calls |-> <<>>]
    ELSE CombineStep(CombineEntriesOf(entries, n - 1, f), entries[n], f)

\* The key selectors: by item, and by index.
KeySelector(sel, item, index) ==
    IF sel = 0 THEN (item % NKeys) + 1 ELSE (index % NKeys) + 1

\* The body of GroupBy's loop for the i-th item (i counts from 0, as Go's
\* range does); res maps a key to its group, the empty slice when res has
\* no such key.
GroupStepFromOne(res, item, i, sel) ==
    [res EXCEPT ![KeySelector(sel, item, i + 1)] = Append(@, item)]
GroupStep(res, item, i, sel) ==
    [res EXCEPT ![KeySelector(sel, item, i)] = Append(@, item)]

RECURSIVE GroupByOf(_, _, _)
\* res after the first n items.
GroupByOf(its, n, sel) ==
    IF n = 0 THEN [k \in Keys |-> <<>>]
    ELSE GroupStep(GroupByOf(its, n - 1, sel), its[n], n - 1, sel)

PureBody(t) ==
    /\ Depth(t) > 0
    /\ Top(t).op \in PureOps
    /\ Top(t).pc = "body"
    /\ LET in == Top(t).args
       IN  IF Top(t).op = "GroupBy"
           THEN Return(t, <<"GroupBy", GroupByOf(in, Len(in), Top(t).v)>>)
           ELSE LET r == CombineEntriesOf(in, Len(in), Top(t).v)
                IN  Return(t, <<"CombineEntries", r.coll, r.calls>>)
    /\ UNCHANGED <<items, mu, started, gencount, genval, first, lastw>>

(***************************************************************************)
(* CombineEntries on every slice of up to MaxEntries entries, GroupBy on   *)
(* every slice of up to MaxEntries items.                                  *)
(***************************************************************************)
PureThreads == {1}

Slices(S) == UNION {[1..n -> S] : n \in 0..MaxEntries}

PureFrames ==
    {[Frame("CombineEntries", "A", "A", 1, f) EXCEPT !.pc = "body", !.args = e] :
        f \in {0, 1}, e \in Slices(Keys \X Vals)}
    \cup {[Frame("GroupBy", "A", "A", 1, sel) EXCEPT !.pc = "body", !.args = e] :
             sel \in {0, 1}, e \in Slices(Vals)}

NextPure ==
    \/ \E t \in PureThreads : ~started[t] /\ \E f \in PureFrames : Call(t, f)
    \/ \E t \in Threads : PureBody(t)

SpecPure == Init /\ [][NextPure]_vars

\* The j-th smallest member of the set S of positions.
Nth(S, j) == CHOOSE i \in S : Cardinality({x \in S : x <= i}) = j

RECURSIVE FoldLeft(_, _, _, _, _)
\* combine folded from the left over the values at the positions S of in.
FoldLeft(in, S, j, f, k) ==
    IF j = 1 THEN in[Nth(S, 1)][2]
    ELSE Combine(f, FoldLeft(in, S, j - 1, f, k), in[Nth(S, j)][2], k)

\* C32: the container CombineEntries returns holds the keys that occur in
\* the slice; a key that occurs N times has the value of the left-to-right
\* fold of its values in the slice's order, and combine was called N - 1
\* times for it (not at all for a key that occurs once), each time with the
\* value so far, the next value and the key.
C32_CombineFold ==
    [][\A t \in PureThreads :
         Returns(t, "CombineEntries") =>
            LET in == Top(t).args
                f == Top(t).v
                coll == ret'[t][2]
                calls == ret'[t][3]
            IN  \A k \in Keys :
                   LET S == {i \in 1..Len(in) : in[i][1] = k}
                       C == {i \in 1..Len(calls) : calls[i][3] = k}
                   IN  IF S = {} THEN coll[k] = Absent /\ C = {}
                       ELSE /\ coll[k] = FoldLeft(in, S, Cardinality(S), f, k)
                            /\ Cardinality(C) = Cardinality(S) - 1
                            /\ \A j \in 1..Cardinality(C) :
                                  calls[Nth(C, j)] =
                                     <<FoldLeft(in, S, j, f, k),
                                       in[Nth(S, j + 1)][2], k>>]_vars

\* CombineEntries has returned for a slice in which one key occurs three
\* times, with two different values, and combine tells its arguments apart.
C32_Witness ==
    \E t \in PureThreads :
        /\ Observed(t, "CombineEntries")
        /\ first[t].v = 1
        /\ Len(first[t].args) = 3
        /\ Len(ret[t][3]) = 2
        /\ first[t].args[1][2] # first[t].args[2][2]

\* C33: GroupBy puts the item at every position i (counted from 0) of the
\* slice in the group of the key keySelector(item, i) and in no other: the
\* group of a key is the sequence of the items at the positions that select
\* it, in the slice's order; the sizes of the groups add up to the length
\* of the slice.
C33_GroupBy ==
    [][\A t \in PureThreads :
         Returns(t, "GroupBy") =>
            LET in == Top(t).args
                sel == Top(t).v
                g == ret'[t][2]
                S(k) == {i \in 1..Len(in) : KeySelector(sel, in[i], i - 1) = k}
            IN  /\ \A k \in Keys :
                      /\ Len(g[k]) = Cardinality(S(k))
                      /\ \A j \in 1..Len(g[k]) : g[k][j] = in[Nth(S(k), j)]
                /\ \A i \in 1..Len(in) :
                      Cardinality({k \in Keys : i \in S(k)}) = 1
                /\ Len(in) = Len(g[1]) + Cardinality(UNION {{<<k, j>> : j \in 1..Len(g[k])} : k \in Keys \ {1}})]_vars

\* GroupBy by index has returned two groups for a slice of three items, the
\* first and the third item in one group.
C33_Witness ==
    \E t \in PureThreads :
        /\ Observed(t, "GroupBy")
        /\ first[t].v = 1
        /\ Len(first[t].args) = 3
        /\ ret[t][2][1] = <<first[t].args[1], first[t].args[3]>>
        /\ ret[t][2][2] = <<first[t].args[2]>>

(***************************************************************************)
(* Reduce and ReduceRight: RLock, then fn folded over the entries from     *)
(* initialValue (Reduce in the order of `range c.items`, ReduceRight from  *)
(* the end of keysUnlocked()), RUnlock on return.  A frame's v is          *)
(* initialValue, its args hold fn; fn calls nothing.                       *)
(***************************************************************************)
ReduceOps == {"Reduce", "ReduceRight"}

\* The functions folded: the sum of the tests, and one whose result tells
\* the order of its calls.
Fn(fn, acc, v, k) == IF fn = 0 THEN acc + v ELSE 10 * acc + k

\* One pass of the loop, for key k; r holds acc and the calls of fn made.
ReduceStepOnce(r, its, k, fn) ==
    IF r.calls # <<>> THEN r
    ELSE [acc |-> Fn(fn, r.acc, its[k], k),
          calls |-> Append(r.calls, <<its[k], k>>)]
ReduceStep(r, its, k, fn) ==
    [acc |-> Fn(fn, r.acc, its[k], k),
     calls |-> Append(r.calls, <<its[k], k>>)]

RECURSIVE ReduceOver(_, _, _, _, _)
\* acc after the loop has passed the first n keys of the sequence keys.
ReduceOver(its, keys, n, fn, initialValue) ==
    IF n = 0 THEN [acc |-> initialValue, calls |-> <<>>]
    ELSE ReduceStep(ReduceOver(its, keys, n - 1, fn, initialValue),
                    its, keys[n], fn)

\* The orders in which the loop may pass the keys.
ReduceOrders(op, its) ==
    IF op = "Reduce" THEN Orders(KeysOf(its))
    ELSE {Reversed(keys) : keys \in KeysUnlocked(its)}

ReduceRLock(t) ==
    /\ Depth(t) > 0
    /\ Top(t).op \in ReduceOps
    /\ Top(t).pc = "rlock"
    /\ ~Blocked(t)
    /\ mu' = [mu EXCEPT ![Top(t).c] = RLock(@, t)]
    /\ Goto(t, [Top(t) EXCEPT !.pc = "body"])
    /\ UNCHANGED <<items, started, ret, gencount, genval, first, lastw>>

ReduceBody(t) ==
    /\ Depth(t) > 0
    /\ Top(t).op \in ReduceOps
    /\ Top(t).pc = "body"
    /\ ~Blocked(t)
    /\ LET its == items[Top(t).c]
       IN  \E r \in {ReduceOver(its, keys, Len(keys), Top(t).args[1], Top(t).v) :
                        keys \in ReduceOrders(Top(t).op, its)} :
               Return(t, <<Top(t).op, r.acc, r.calls>>)
    /\ mu' = [mu EXCEPT ![Top(t).c] = RUnlock(@, t)]
    /\ UNCHANGED <<items, started, gencount, genval, first, lastw>>

(***************************************************************************)
(* Reduce of a container, and then ReduceRight of it with the same         *)
(* function and initial value.                                             *)
(***************************************************************************)
ReduceFrames ==
    {[Frame("Reduce", "A", "A", 1, init) EXCEPT !.args = <<fn>>] :
        fn \in {0, 1}, init \in {0} \cup Vals}

ReduceRightAfter(f) == [f EXCEPT !.op = "ReduceRight"]

NextReduce ==
    \/ \E t \in FirstThreads, f \in ReduceFrames : Call(t, f)
    \/ \E t \in FirstThreads, u \in SecondThreads :
          started[t] /\ Idle(t) /\ Call(u, ReduceRightAfter(first[t]))
    \/ \E t \in Threads : ReduceRLock(t)
    \/ \E t \in Threads : ReduceBody(t)

SpecReduce == InitTraverse /\ [][NextReduce]_vars

RECURSIVE SumOver(_, _)
\* The sum of the values of the mapping its at the keys S.
SumOver(its, S) ==
    IF S = {} THEN 0
    ELSE LET k == CHOOSE x \in S : TRUE
         IN  its[k] + SumOver(its, S \ {k})

RECURSIVE FoldCalls(_, _, _, _)
\* fn folded from init over the first n of the calls.
FoldCalls(calls, n, fn, init) ==
    IF n = 0 THEN init
    ELSE Fn(fn, FoldCalls(calls, n - 1, fn, init), calls[n][1], calls[n][2])

\* C34: Reduce and ReduceRight call fn once for every entry of the
\* container, with its value and key, each call given the result of the
\* call before it and the first one initialValue, and return the result of
\* the last call: initialValue for an empty container, initialValue plus
\* the sum of the values when fn adds; with a function that adds,
\* ReduceRight returns what Reduce returned.
C34_Reduce ==
    [][\A t \in Threads : \A op \in ReduceOps :
         Returns(t, op) =>
            LET its == items[Top(t).c]
                fn == Top(t).args[1]
                acc == ret'[t][2]
                calls == ret'[t][3]
            IN  /\ Len(calls) = SizeOf(its)
                /\ \A k \in KeysOf(its) : Count(calls, <<its[k], k>>) = 1
                /\ acc = FoldCalls(calls, Len(calls), fn, Top(t).v)
                /\ its = EmptyMap => acc = Top(t).v
                /\ fn = 0 => acc = Top(t).v + SumOver(its, KeysOf(its))
                /\ (fn = 0 /\ op = "ReduceRight") =>
                      \A u \in FirstThreads : acc = ret[u][2]]_vars

\* Reduce and ReduceRight have both returned the sum over a container of
\* two entries with different values, from an initial value other than 0.
C34_Witness ==
    /\ Observed(1, "Reduce")
    /\ Observed(2, "ReduceRight")
    /\ first[1].args[1] = 0
    /\ first[1].v # 0
    /\ \E k1, k2 \in KeysOf(items["A"]) : items["A"][k1] # items["A"][k2]
    /\ ret[2][2] = ret[1][2]
    /\ Len(ret[2][3]) >= 2

(***************************************************************************)
(* Filter, Partition and Sweep with a predicate that calls nothing and     *)
(* looks at the entry alone: what fn returns is then a function of the     *)
(* value and the key the loop passes.  A frame's v is the predicate.       *)
(***************************************************************************)
\* The predicates: always true, always false, the value is even, the key
\* is the first one.
Pred(p, v, k) ==
    CASE p = 0 -> TRUE
      [] p = 1 -> FALSE
      [] p = 2 -> v % 2 = 0
      [] OTHER -> k = 1

TravPredReturn(t) ==
    /\ Depth(t) > 0
    /\ Top(t).op \in RangeOps
    /\ Top(t).pc = "incb"
    /\ TravCbReturn(t, Pred(Top(t).v, items[Top(t).c][Top(t).k], Top(t).k))

SweepPredReturn(t) ==
    /\ Running(t, "Sweep", "incb")
    /\ SweepCbReturn(t, Pred(Top(t).v, items[Top(t).c][Top(t).k], Top(t).k))

(***************************************************************************)
(* Partition or Sweep of container A, and then Filter of it with the same  *)
(* predicate.  Container B holds, and keeps, what A held at first.         *)
(***************************************************************************)
InitSelect ==
    InitWith({[c \in Cols |-> IF c = "N" THEN EmptyMap ELSE m] : m \in Maps})

SelectFrames ==
    {Frame(op, "A", "A", 1, p) : op \in {"Partition", "Sweep"}, p \in 0..3}

FilterAfter(f) == Frame("Filter", f.c, f.c, 1, f.v)

NextSelect ==
    \/ \E t \in FirstThreads, f \in SelectFrames : Call(t, f)
    \/ \E t \in FirstThreads, u \in SecondThreads :
          started[t] /\ Idle(t) /\ Call(u, FilterAfter(first[t]))
    \/ \E t \in Threads : TravRLock(t)
    \/ \E t \in Threads : TravRange(t)
    \/ \E t \in Threads : TravIter(t)
    \/ \E t \in Threads : TravPredReturn(t)
    \/ \E t \in Threads : SweepLock(t)
    \/ \E t \in Threads : SweepRange(t)
    \/ \E t \in Threads : SweepIter(t)
    \/ \E t \in Threads : SweepPredReturn(t)

SpecSelect == InitSelect /\ [][NextSelect]_vars

\* The entries of the mapping its that satisfy the predicate p, and those
\* that do not.
Satisfying(its, p) ==
    [k \in Keys |-> IF its[k] # Absent /\ Pred(p, its[k], k)
                    THEN its[k] ELSE Absent]
Failing(its, p) ==
    [k \in Keys |-> IF its[k] # Absent /\ ~Pred(p, its[k], k)
                    THEN its[k] ELSE Absent]

\* C35: Filter(p) returns exactly the entries of the container that satisfy
\* p (all of them when p is always true, none when p is always false);
\* Partition(p) returns a pair (pass, fail) such that every entry of the
\* container is in exactly one of the two, pass holds what Filter(p)
\* returns, and the sizes of the two add up to the size of the container.
C35_FilterPartition ==
    [][\A t \in Threads :
         /\ Returns(t, "Filter") =>
               LET its == items[Top(t).c]
                   p == Top(t).v
               IN  /\ ret'[t][2] = Satisfying(its, p)
                   /\ p = 0 => ret'[t][2] = its
                   /\ p = 1 => ret'[t][2] = EmptyMap
                   /\ \A u \in FirstThreads :
                         first[u].op = "Partition" => ret'[t][2] = ret[u][2]
         /\ Returns(t, "Partition") =>
               LET its == items[Top(t).c]
                   pass == ret'[t][2]
                   fail == ret'[t][3]
               IN  /\ \A k \in Keys :
                         \/ pass[k] = its[k] /\ fail[k] = Absent
                         \/ fail[k] = its[k] /\ pass[k] = Absent
                   /\ pass = Satisfying(its, Top(t).v)
                   /\ SizeOf(pass) + SizeOf(fail) = SizeOf(its)]_vars

\* Partition by the parity of the value has returned one entry in pass and
\* one in fail, and Filter by the same predicate has returned after it.
C35_Witness ==
    /\ Observed(1, "Partition")
    /\ Observed(2, "Filter")
    /\ first[1].v = 2
    /\ SizeOf(ret[1][2]) = 1
    /\ SizeOf(ret[1][3]) = 1
    /\ ret[2][2] = ret[1][2]

\* C36: Sweep(p) removes the entries that satisfy p and no other, and
\* returns their number, which is the size of the container before the
\* call minus its size after it; no entry left in the container satisfies
\* p.
C36_Sweep ==
    [][\A t \in Threads :
         Returns(t, "Sweep") =>
            LET before == items["B"]
                after == items'[Top(t).c]
                p == Top(t).v
            IN  /\ after = Failing(before, p)
                /\ ret'[t][2] = SizeOf(Satisfying(before, p))
                /\ ret'[t][2] = SizeOf(before) - SizeOf(after)
                /\ \A k \in KeysOf(after) : ~Pred(p, after[k], k)]_vars

\* Sweep by the parity of the value has removed one of two entries.
C36_Witness ==
    /\ Observed(1, "Sweep")
    /\ first[1].v = 2
    /\ ret[1][2] = 1
    /\ SizeOf(items["B"]) = 2
    /\ SizeOf(items["A"]) = 1

(***************************************************************************)
(* The methods that call another method of the same container while they   *)
(* hold its shared lock: Union (c.Clone()) and First, FirstKey, Last and   *)
(* LastKey with a negative amount (the opposite method), beside a          *)
(* goroutine that calls Set on that container.                             *)
(***************************************************************************)
ReenterThreads == {1}
WriterThreads == {2}

ReenterFrames ==
    {Frame("Union", "A", "B", 1, Absent)}
    \cup {Frame(op, "A", "A", 1, -1) : op \in PosOps}

WriterFrames == {Frame("Set", "A", "A", k, 1) : k \in Keys}

NextReenter ==
    \/ \E t \in ReenterThreads, f \in ReenterFrames : Call(t, f)
    \/ \E t \in WriterThreads, f \in WriterFrames : Call(t, f)
    \/ \E t \in Threads : SetLock(t)
    \/ \E t \in Threads : SetBody(t)
    \/ \E t \in Threads : BinRLock(t)
    \/ \E t \in Threads : BinRLockOther(t)
    \/ \E t \in Threads : UnionCloneRLock(t)
    \/ \E t \in Threads : UnionCloneBody(t)
    \/ \E t \in Threads : BinBody(t)
    \/ \E t \in Threads : PosRLock(t)
    \/ \E t \in Threads : PosBody(t)
    \/ \E t \in Threads : PosDelegReturn(t)

SpecReenter == InitTraverse /\ [][NextReenter]_vars

\* C37: a call of Union, or of First, FirstKey, Last or LastKey with a
\* negative amount, beside a goroutine that calls Set on the same
\* container, always returns: the goroutine never waits for the shared lock
\* of a container whose shared lock it holds, and no state is a deadlock.
C37_ReentryReturns ==
    /\ \A t \in ReenterThreads, c \in Cols :
          ~(mu[c].readers[t] > 0 /\ t \in mu[c].rwait)
    /\ (\E t \in ReenterThreads : started[t]) => ~Deadlock

(***************************************************************************)
(* First, FirstKey, Last and LastKey with every amount an int can hold.    *)
(* The model follows the calls a method makes down to MaxDepth frames.     *)
(***************************************************************************)
WrapThreads == {1}

WrapFrames == {Frame(op, "A", "A", 1, n) : op \in PosOps, n \in MinInt..MaxInt}

NextWrap ==
    \/ \E t \in WrapThreads, f \in WrapFrames : Call(t, f)
    \/ \E t \in Threads : PosRLock(t)
    \/ \E t \in Threads : PosBody(t)
    \/ \E t \in Threads : PosDelegReturn(t)

SpecWrap == InitTraverse /\ [][NextWrap]_vars

\* C38: First(n), Last(n), FirstKey(n) and LastKey(n) terminate for every
\* amount n an int can hold: the calls a call makes never lead to a call of
\* the same method with the same amount on the same container (which, the
\* container being read-locked all the while, would make that call again
\* and so forever).
C38_PositionalTerminates ==
    \A t \in Threads :
        \A i, j \in 1..Depth(t) :
            i < j => ~(/\ stack[t][i].op = stack[t][j].op
                       /\ stack[t][i].c = stack[t][j].c
                       /\ stack[t][i].v = stack[t][j].v)

(***************************************************************************)
(* FlatMap: RLock, then for every entry `sub := fn(v, k, c)` and           *)
(* `for subk, subv := range sub.items { result.items[subk] = subv }`,      *)
(* RUnlock on return.  The inner loop takes no lock of sub.  o is the      *)
(* container fn returned, args the keys the inner loop has yet to produce. *)
(***************************************************************************)
FlatRLock(t) ==
    /\ Running(t, "FlatMap", "rlock")
    /\ mu' = [mu EXCEPT ![Top(t).c] = RLock(@, t)]
    /\ Goto(t, [Top(t) EXCEPT !.pc = "range"])
    /\ UNCHANGED <<items, started, ret, gencount, genval, first, lastw>>

FlatRange(t) ==
    /\ Running(t, "FlatMap", "range")
    /\ Goto(t, [Top(t) EXCEPT !.pc = "iter", !.rem = KeysOf(items[Top(t).c])])
    /\ UNCHANGED <<items, mu, started, ret, gencount, genval, first, lastw>>

FlatIter(t) ==
    /\ Running(t, "FlatMap", "iter")
    /\ IF Top(t).rem = {}
       THEN /\ mu' = [mu EXCEPT ![Top(t).c] = RUnlock(@, t)]
            /\ items' = NewWith(Top(t).d, Top(t).res)
            /\ Return(t, <<"FlatMap", Top(t).res>>)
       ELSE /\ \E k \in Top(t).rem :
                 Goto(t, [Top(t) EXCEPT !.pc = "incb", !.k = k,
                                        !.rem = @ \ {k}, !.n = 0])
            /\ UNCHANGED <<items, mu, ret>>
    /\ UNCHANGED <<started, gencount, genval, first, lastw>>

\* fn returns the container sub; the inner range loop starts.
FlatCbReturn(t, sub) ==
    /\ Running(t, "FlatMap", "incb")
    /\ \E keys \in Orders(KeysOf(items[sub])) :
          Goto(t, [Top(t) EXCEPT !.pc = "sub", !.o = sub, !.args = keys])
    /\ UNCHANGED <<items, mu, started, ret, gencount, genval, first, lastw>>

\* A goroutine is writing the map of container c.
Writing(c) == mu[c].writer # NoThread /\ mu[c].wactive

\* The inner loop reads the next entry of sub.items, or ends.
FlatSubIter(t) ==
    /\ Running(t, "FlatMap", "sub")
    /\ IF Top(t).args = <<>>
       THEN Goto(t, [Top(t) EXCEPT !.pc = "iter"])
       ELSE LET subk == Head(Top(t).args)
                subv == items[Top(t).o][subk]
            IN  Goto(t, [Top(t) EXCEPT
                           !.args = Tail(@),
                           !.res = IF subv = Absent THEN @
                                   ELSE [@ EXCEPT ![subk] = subv]])
    /\ UNCHANGED <<items, mu, started, ret, gencount, genval, first, lastw>>

\* The inner loop reads sub.items while another goroutine writes it: a data
\* race.  The read may go through (FlatSubIter), or the runtime detects it
\* ("fatal error: concurrent map read and map write") and ends the
\* program, every goroutine with it.
FlatFatal(t) ==
    /\ Running(t, "FlatMap", "sub")
    /\ Top(t).args # <<>>
    /\ Writing(Top(t).o)
    /\ stack' = [u \in Threads |-> <<>>]
    /\ started' = [u \in Threads |-> TRUE]
    /\ ret' = [u \in Threads |-> <<"fatal", 0>>]
    /\ UNCHANGED <<items, mu, gencount, genval, first, lastw>>

(***************************************************************************)
(* FlatMap of container A whose function returns A or B, beside a          *)
(* goroutine that calls Set on B.                                          *)
(***************************************************************************)
FlatThreads == {1}
SubWriterThreads == {2}

FlatFrames == {Making(Frame("FlatMap", "A", "A", 1, Absent), "N")}

SubWriterFrames == {Frame("Set", "B", "B", k, v) : k \in Keys, v \in Vals}

NextFlat ==
    \/ \E t \in FlatThreads, f \in FlatFrames : Call(t, f)
    \/ \E t \in SubWriterThreads, f \in SubWriterFrames : Call(t, f)
    \/ \E t \in Threads : SetLock(t)
    \/ \E t \in Threads : SetBody(t)
    \/ \E t \in Threads : FlatRLock(t)
    \/ \E t \in Threads : FlatRange(t)
    \/ \E t \in Threads : FlatIter(t)
    \/ \E t \in Threads, sub \in {"A", "B"} : FlatCbReturn(t, sub)
    \/ \E t \in Threads : FlatSubIter(t)
    \/ \E t \in Threads : FlatFatal(t)

SpecFlat == InitDerive /\ [][NextFlat]_vars

\* C39: FlatMap reads the mapping of the container fn returned under that
\* container's shared lock, so that no Set on it overlaps the reading: while
\* FlatMap ranges over sub.items it holds sub's shared lock and no goroutine
\* is writing sub's map.
C39_FlatMapReadsLocked ==
    \A t \in Threads :
        (Depth(t) > 0 /\ Top(t).op = "FlatMap" /\ Top(t).pc = "sub"
            /\ Top(t).args # <<>>)
        => (mu[Top(t).o].readers[t] > 0 /\ ~Writing(Top(t).o))

(***************************************************************************)
(* Concat(A, B) beside a goroutine that deletes key 1 of A and then,       *)
(* after Delete has returned, sets key 2 of B.  At first A holds key 1     *)
(* with value 1 and B does not hold key 2, so that what the two held at    *)
(* first can be told from what they hold now.                              *)
(***************************************************************************)
InitMoments ==
    InitWith({[c \in Cols |-> CASE c = "A" -> a
                                [] c = "B" -> b
                                [] c = "N" -> EmptyMap] :
                 a \in {m \in Maps : m[1] = 1},
                 b \in {m \in Maps : m[NKeys] = Absent}})

DeleterThreads == {2}
SetterThreads == {3}

MomentFrames ==
    {[Making(Frame("Concat", "A", "A", 1, Absent), "N") EXCEPT !.args = <<"B">>]}
DeleterFrames == {Frame("Delete", "A", "A", 1, Absent)}
SetterFrames == {Frame("Set", "B", "B", NKeys, 1)}

NextMoments ==
    \/ \E t \in ConcatThreads, f \in MomentFrames : Call(t, f)
    \/ \E t \in DeleterThreads, f \in DeleterFrames : Call(t, f)
    \/ \E t \in DeleterThreads, u \in SetterThreads, f \in SetterFrames :
          started[t] /\ Idle(t) /\ Call(u, f)
    \/ \E t \in Threads : SetLock(t)
    \/ \E t \in Threads : SetBody(t)
    \/ \E t \in Threads : DeleteLock(t)
    \/ \E t \in Threads : DeleteBody(t)
    \/ \E t \in Threads : ConcatCloneRLock(t)
    \/ \E t \in Threads : ConcatCloneBody(t)
    \/ \E t \in Threads : ConcatNext(t)
    \/ \E t \in Threads : ConcatCopy(t)

SpecMoments == InitMoments /\ [][NextMoments]_vars

\* What A and B held at the instants of the run so far: at first, after
\* Delete's change if it was made, after Set's change if it was made.
Moments ==
    LET a0 == [items["A"] EXCEPT ![1] = 1]
        b0 == [items["B"] EXCEPT ![NKeys] = Absent]
    IN  {<<a0, b0>>, <<items["A"], b0>>, <<items["A"], items["B"]>>}

\* C40: the container Concat(A, B) returns, with goroutines changing A and
\* B meanwhile, holds what A and B held together at one instant: B's
\* entries of that instant stored over A's entries of that instant.
C40_ConcatOneInstant ==
    \A t \in ConcatThreads :
        Observed(t, "Concat") =>
            \E m \in Moments : ret[t][2] = StoreAll(CloneOf(m[1]), m[2])

====
